---------------------------- MODULE Spec2Model ----------------------------
(***************************************************************************)
(* Verification model of the CEZ PND add-on polling pipeline:              *)
(*   addon/src/orchestrator.py   Orchestrator.run_loop / run_once          *)
(*   addon/src/auth.py           PlaywrightAuthClient.ensure_session       *)
(*   addon/src/session_manager.py SessionStore                             *)
(*   addon/src/parser.py         CezDataParser                             *)
(* Time is counted in hours.  Python None is the record Null; every       *)
(* optional value is a record with a field k so that values of different  *)
(* shapes can be compared.                                                 *)
(***************************************************************************)
EXTENDS Integers, Sequences, FiniteSets, TLC

\* ------------------------------------------------------------------ bounds
MaxCycles == 2          \* polling cycles explored
PollInterval == 3       \* hours slept between two cycles
ShortCookieLife == 2    \* lifetime of a cookie of the earlier, short-lived session
MaxOddPayloads == 1     \* malformed / unusual report payloads per cycle
MaxFaultsMulti == 1     \* fetcher and tariff calls per cycle that deviate, with several meters
MaxCookies == 2         \* cookies in a list given to save
MaxExpiry == 3          \* latest cookie expiry given to save
MaxSaveTime == 2        \* latest time of a save call studied on its own
DaySlots == 3           \* equal parts of the day whose ends are the window times
MaxWindows == 2         \* windows in a tariff schedule
MaxYears == 2           \* years before 2026 whose dates are parsed
MaxRows == 2            \* rows in a report given to parse_records
MaxLaunches == 5        \* browsers launched by logins

\* ------------------------------------------------------- program constants
DEFAULT_SESSION_TTL == 6
max_retries == 3
\* PndFetcher.fetch suspends at this many awaits before it returns the data
FetchAwaits == 8

Null == [k |-> "null"]

\* ----------------------------------------------------------------- parser
PARSER_KEYS ==
    << "consumption_kw", "production_kw", "reactive_kw",
       "reactive_import_inductive_kw", "reactive_export_capacitive_kw",
       "reactive_export_inductive_kw", "reactive_import_capacitive_kw",
       "daily_consumption_kwh", "daily_production_kwh",
       "register_consumption_kwh", "register_production_kwh",
       "register_low_tariff_kwh", "register_high_tariff_kwh" >>

ParserKeySet == { PARSER_KEYS[i] : i \in 1..Len(PARSER_KEYS) }

\* _PARSER_KEY_TO_SENSOR_KEY: the sensor key is the parser key without its
\* unit suffix; the table is a bijection on the 13 keys.
_PARSER_KEY_TO_SENSOR_KEY ==
    [ x \in ParserKeySet |->
        CASE x = "consumption_kw" -> "consumption"
          [] x = "production_kw" -> "production"
          [] x = "reactive_kw" -> "reactive"
          [] x = "reactive_import_inductive_kw" -> "reactive_import_inductive"
          [] x = "reactive_export_capacitive_kw" -> "reactive_export_capacitive"
          [] x = "reactive_export_inductive_kw" -> "reactive_export_inductive"
          [] x = "reactive_import_capacitive_kw" -> "reactive_import_capacitive"
          [] x = "daily_consumption_kwh" -> "daily_consumption"
          [] x = "daily_production_kwh" -> "daily_production"
          [] x = "register_consumption_kwh" -> "register_consumption"
          [] x = "register_production_kwh" -> "register_production"
          [] x = "register_low_tariff_kwh" -> "register_low_tariff"
          [] x = "register_high_tariff_kwh" -> "register_high_tariff" ]

SensorKeySet == { _PARSER_KEY_TO_SENSOR_KEY[x] : x \in ParserKeySet }

\* A column name is base, or base "/" suffix when slash is TRUE.
Plain(b) == [base |-> b, slash |-> FALSE, suffix |-> ""]
Slashed(b, s) == [base |-> b, slash |-> TRUE, suffix |-> s]

\* the strings of digits that occur as meter ids
DigitStrings == {"784703", "784704", "555555"}

\* _METER_ID_PATTERN: ^(?:+A|-A|Rv|+A d|-A d|+E|-E|+E_NT|+E_VT)/(\d+)$
METER_ID_BASES == {"+A", "-A", "Rv", "+A d", "-A d", "+E", "-E", "+E_NT", "+E_VT"}

MeterIdMatch(name) ==
    IF name.slash /\ name.base \in METER_ID_BASES /\ name.suffix \in DigitStrings
    THEN [k |-> "str", s |-> name.suffix]
    ELSE Null

\* name.startswith(b + "/") and name == b
StartsWith(name, b) == name.slash /\ name.base = b
Is(name, b) == ~name.slash /\ name.base = b

\* the if/elif chain of _discover_columns: the role a column name maps to
RoleOf(name) ==
    IF Is(name, "Datum") THEN "timestamp"
    ELSE IF StartsWith(name, "+A") \/ Is(name, "Profil +A") THEN "consumption_kw"
    ELSE IF StartsWith(name, "-A") \/ Is(name, "Profil -A") THEN "production_kw"
    ELSE IF StartsWith(name, "Rv") THEN "reactive_kw"
    ELSE IF Is(name, "Profil +Ri") THEN "reactive_import_inductive_kw"
    ELSE IF Is(name, "Profil -Rc") THEN "reactive_export_capacitive_kw"
    ELSE IF Is(name, "Profil -Ri") THEN "reactive_export_inductive_kw"
    ELSE IF Is(name, "Profil +Rc") THEN "reactive_import_capacitive_kw"
    ELSE IF StartsWith(name, "+A d") THEN "daily_consumption_kwh"
    ELSE IF StartsWith(name, "-A d") THEN "daily_production_kwh"
    ELSE IF StartsWith(name, "+E_NT") THEN "register_low_tariff_kwh"
    ELSE IF StartsWith(name, "+E_VT") THEN "register_high_tariff_kwh"
    ELSE IF StartsWith(name, "+E") THEN "register_consumption_kwh"
    ELSE IF StartsWith(name, "-E") THEN "register_production_kwh"
    ELSE "ignored"

\* the roles whose branch of _discover_columns calls _extract_meter_id
ExtractingRoles ==
    ParserKeySet \ { "reactive_import_inductive_kw", "reactive_export_capacitive_kw",
                     "reactive_export_inductive_kw", "reactive_import_capacitive_kw" }

Roles == ParserKeySet \cup {"timestamp"}

NoColumns == [ r \in Roles |-> Null ]

\* _discover_columns over columns[i..]: a later column of a role replaces the
\* column id, the first meter id found is kept.
RECURSIVE DiscoverFrom(_, _, _)
DiscoverFrom(columns, i, acc) ==
    IF i > Len(columns) THEN acc
    ELSE LET col == columns[i]
             role == RoleOf(col.name)
             ids == IF role \in Roles
                    THEN [acc.ids EXCEPT ![role] = [k |-> "str", s |-> col.id]]
                    ELSE acc.ids
             mid == IF acc.mid = Null /\ role \in ExtractingRoles
                    THEN MeterIdMatch(col.name)
                    ELSE acc.mid
         IN DiscoverFrom(columns, i + 1, [ids |-> ids, mid |-> mid])

_discover_columns(columns) ==
    DiscoverFrom(columns, 1, [ids |-> NoColumns, mid |-> Null])

\* _extract_cell_value: the "v" of the row's cell, None when the column or
\* the cell is missing.
_extract_cell_value(row, col_id) ==
    IF col_id = Null THEN Null
    ELSE IF col_id.s \notin DOMAIN row THEN Null
    ELSE row[col_id.s]

\* parse_czech_decimal: a string "<digits>,<digits>" yields its number;
\* None, "" and every other text yield None.
parse_czech_decimal(value) ==
    IF value = Null THEN Null
    ELSE IF value.k = "dec" THEN [k |-> "float", val |-> value.val]
    ELSE Null

IsLeap(y) == (y % 4 = 0 /\ y % 100 # 0) \/ y % 400 = 0

DaysInMonth(y, m) ==
    IF m \in {4, 6, 9, 11} THEN 30
    ELSE IF m = 2 THEN (IF IsLeap(y) THEN 29 ELSE 28)
    ELSE 31

ValidDate(y, m, d) == y \in 1..9999 /\ m \in 1..12 /\ d \in 1..DaysInMonth(y, m)

\* A variant of NextDay that stays in the month.
NextDay_SameMonth(y, m, d) == [y |-> y, m |-> m, d |-> d + 1]

\* datetime(year, month, day) + timedelta(days=1)
NextDay(y, m, d) ==
    IF d < DaysInMonth(y, m) THEN [y |-> y, m |-> m, d |-> d + 1]
    ELSE IF m < 12 THEN [y |-> y, m |-> m + 1, d |-> 1]
    ELSE [y |-> y + 1, m |-> 1, d |-> 1]

Raise == [k |-> "raise"]

\* parse_czech_timestamp.  A value of kind "ts" is a string matching
\* _TIMESTAMP_PATTERN with the five numbers d, m, y, hh, mi; every other
\* string does not match.  The 24:00 branch builds datetime(year, month, day)
\* outside the try block, so an impossible date raises there.
parse_czech_timestamp(value) ==
    IF value = Null THEN Null
    ELSE IF value.k # "ts" THEN Null
    ELSE IF value.hh = 24 /\ value.mi = 0
         THEN IF ValidDate(value.y, value.m, value.d) /\ ~(value.y = 9999 /\ value.m = 12 /\ value.d = 31)
              THEN LET n == NextDay(value.y, value.m, value.d)
                   IN [k |-> "datetime", y |-> n.y, m |-> n.m, d |-> n.d, hh |-> 0, mi |-> 0]
              ELSE Raise
         ELSE IF ValidDate(value.y, value.m, value.d) /\ value.hh \in 0..23 /\ value.mi \in 0..59
              THEN [k |-> "datetime", y |-> value.y, m |-> value.m, d |-> value.d,
                    hh |-> value.hh, mi |-> value.mi]
              ELSE Null

\* CezDataParser.parse_records over values[i..]: a row whose timestamp is
\* None is skipped, every metric cell is parsed on its own.  The result is
\* the list of readings, or Raise when a timestamp cell raises.
RECURSIVE ParseFrom(_, _, _, _)
ParseFrom(values, ids, i, acc) ==
    IF i > Len(values) THEN [k |-> "list", items |-> acc]
    ELSE LET row == values[i]
             ts == parse_czech_timestamp(_extract_cell_value(row, ids["timestamp"]))
         IN IF ts = Raise THEN Raise
            ELSE IF ts = Null THEN ParseFrom(values, ids, i + 1, acc)
            ELSE ParseFrom(values, ids, i + 1,
                    Append(acc,
                        [timestamp |-> ts,
                         vals |-> [x \in ParserKeySet |->
                                     parse_czech_decimal(_extract_cell_value(row, ids[x]))]]))

\* CezDataParser.__init__: the columns are discovered once; columns that are
\* None cannot be iterated and raise TypeError
CezDataParser(payload) ==
    IF payload.columns = Null THEN Raise
    ELSE LET d == _discover_columns(payload.columns.items)
         IN [k |-> "parser", values |-> payload.values,
             column_ids |-> d.ids, electrometer_id |-> d.mid]

parse_records(parser) ==
    ParseFrom(parser.values, parser.column_ids, 1, << >>)

\* get_latest_reading: the last record, None when there is none
get_latest_reading(parser) ==
    LET records == parse_records(parser)
    IN IF records = Raise THEN Raise
       ELSE IF records.items = << >> THEN Null
       ELSE records.items[Len(records.items)]

\* get_latest_reading_dict: the flat dict of the latest reading with the
\* detected electrometer_id
get_latest_reading_dict(parser) ==
    LET latest == get_latest_reading(parser)
    IN IF latest = Raise THEN Raise
       ELSE IF latest = Null THEN Null
       ELSE [k |-> "reading", timestamp |-> latest.timestamp, vals |-> latest.vals,
             electrometer_id |-> parser.electrometer_id]

\* --------------------------------------------------------- report payloads
\* A variant of ASSEMBLY_CONFIGS in which the two reactive profile reports
\* have changed places in the list.
ASSEMBLY_CONFIGS_Reordered ==
    << [id |-> -1003, name |-> "profile_all", fallback_yesterday |-> FALSE],
       [id |-> -1011, name |-> "profile_production_reactive", fallback_yesterday |-> FALSE],
       [id |-> -1012, name |-> "profile_consumption_reactive", fallback_yesterday |-> FALSE],
       [id |-> -1021, name |-> "daily_consumption", fallback_yesterday |-> FALSE],
       [id |-> -1022, name |-> "daily_production", fallback_yesterday |-> FALSE],
       [id |-> -1027, name |-> "daily_registers", fallback_yesterday |-> TRUE] >>

\* ASSEMBLY_CONFIGS, in the order of the list
ASSEMBLY_CONFIGS ==
    << [id |-> -1003, name |-> "profile_all", fallback_yesterday |-> FALSE],
       [id |-> -1012, name |-> "profile_consumption_reactive", fallback_yesterday |-> FALSE],
       [id |-> -1011, name |-> "profile_production_reactive", fallback_yesterday |-> FALSE],
       [id |-> -1021, name |-> "daily_consumption", fallback_yesterday |-> FALSE],
       [id |-> -1022, name |-> "daily_production", fallback_yesterday |-> FALSE],
       [id |-> -1027, name |-> "daily_registers", fallback_yesterday |-> TRUE] >>

NumAssemblies == Len(ASSEMBLY_CONFIGS)

AssemblyNames == { ASSEMBLY_CONFIGS[i].name : i \in 1..NumAssemblies }

Col(i, n) == [id |-> i, name |-> n]

\* the columns the portal sends for each report of meter mid
VendorColumns(asm, mid) ==
    CASE asm = -1003 -> << Col("c0", Plain("Datum")), Col("c1", Slashed("+A", mid)),
                           Col("c2", Slashed("-A", mid)), Col("c3", Slashed("Rv", mid)) >>
      [] asm = -1012 -> << Col("c0", Plain("Datum")), Col("c1", Plain("Profil +A")),
                           Col("c2", Plain("Profil +Ri")), Col("c3", Plain("Profil -Rc")) >>
      [] asm = -1011 -> << Col("c0", Plain("Datum")), Col("c1", Plain("Profil -A")),
                           Col("c2", Plain("Profil -Ri")), Col("c3", Plain("Profil +Rc")) >>
      [] asm = -1021 -> << Col("c0", Plain("Datum")), Col("c1", Slashed("+A d", mid)) >>
      [] asm = -1022 -> << Col("c0", Plain("Datum")), Col("c1", Slashed("-A d", mid)) >>
      [] asm = -1027 -> << Col("c0", Plain("Datum")), Col("c1", Slashed("+E", mid)),
                           Col("c2", Slashed("-E", mid)), Col("c3", Slashed("+E_NT", mid)),
                           Col("c4", Slashed("+E_VT", mid)) >>

Ts(d, m, y, hh, mi) == [k |-> "ts", d |-> d, m |-> m, y |-> y, hh |-> hh, mi |-> mi]
Dec(v) == [k |-> "dec", val |-> v]
Text == [k |-> "text"]

\* one row: the timestamp cell ts and the cell cell in every other column
RowOf(columns, ts, cell) ==
    [ c \in { columns[i].id : i \in 1..Len(columns) } |-> IF c = "c0" THEN ts ELSE cell ]

\* a JSON list, as opposed to None
List(items) == [k |-> "list", items |-> items]

\* a payload whose "columns" is the list columns
Payload(hasData, columns, values) ==
    [k |-> "payload", hasData |-> hasData, columns |-> List(columns), values |-> values]

\* a payload whose "columns" is None
PayloadNoColumns(hasData, values) ==
    [k |-> "payload", hasData |-> hasData, columns |-> Null, values |-> values]

\* A report of meter mid fetched in cycle c carries the value c in each of
\* its metric cells, so that a published value tells the cycle it was
\* fetched in.
NominalPayload(asm, mid, c) ==
    Payload("true", VendorColumns(asm, mid),
            << RowOf(VendorColumns(asm, mid), Ts(14, 2, 2026, 0, 15), Dec(c)) >>)

NoDataPayload == Payload("false", << >>, << >>)

\* the unusual payloads: unparsable metric cells, no rows, a hasData key
\* that is missing, columns that are None, no payload (None) and, for the
\* first report, columns that embed another meter's id
OddPayloads(asm, mid, c) ==
    ({ Payload("true", VendorColumns(asm, mid),
              << RowOf(VendorColumns(asm, mid), Ts(14, 2, 2026, 0, 15), Text) >>),
      Payload("true", VendorColumns(asm, mid), << >>),
      Payload("missing", VendorColumns(asm, mid),
              << RowOf(VendorColumns(asm, mid), Ts(14, 2, 2026, 0, 15), Dec(c)) >>),
      PayloadNoColumns("true", << >>),
      Null }
     \cup (IF asm = ASSEMBLY_CONFIGS[1].id
           THEN { Payload("true", VendorColumns(asm, "555555"),
                          << RowOf(VendorColumns(asm, "555555"),
                                   Ts(14, 2, 2026, 0, 15), Dec(c)) >>) }
           ELSE {}))
    \ { NominalPayload(asm, mid, c) }

\* what one call of the fetcher can do: raise a generic error, raise
\* SessionExpiredError, or return a payload
FetchError == [k |-> "error"]
FetchExpired == [k |-> "expired"]
\* the None that _fetch_with_retry returns
FetchNone == [k |-> "none"]

FetchOutcomes(asm, mid, c, fault, odd) ==
    { NominalPayload(asm, mid, c) }
    \cup (IF fault THEN { FetchError, FetchExpired, NoDataPayload } ELSE {})
    \cup (IF fault /\ odd THEN OddPayloads(asm, mid, c) ELSE {})

\* ---------------------------------------------------------- session store
Time(t) == [k |-> "time", t |-> t]
Num(n) == [k |-> "num", n |-> n]

\* a cookie minted by a login at time n; expires is Num(time) or Null when
\* the cookie has no such field
Cookie(n, expires) == [value |-> n, expires |-> expires]

\* SessionStore._compute_expiry over cookies[i..]: the earliest expiry that
\* is a positive number, Null when no cookie has one
RECURSIVE MinExpiryFrom(_, _, _)
MinExpiryFrom(cookies, i, acc) ==
    IF i > Len(cookies) THEN acc
    ELSE LET e == cookies[i].expires
         IN IF e # Null /\ e.n > 0 /\ (acc = Null \/ e.n < acc.t)
            THEN MinExpiryFrom(cookies, i + 1, Time(e.n))
            ELSE MinExpiryFrom(cookies, i + 1, acc)

\* A variant of is_expired for which a session is still good at the instant
\* of its expiry.
is_expired_Strict(st, t) ==
    IF st.expires_at # Null THEN t > st.expires_at.t
    ELSE t > st.created_at + DEFAULT_SESSION_TTL

\* A variant of _compute_expiry that looks at no cookie.
_compute_expiry_TtlOnly(cookies, created_at) ==
    Time(created_at + DEFAULT_SESSION_TTL)

\* SessionStore._compute_expiry, lines 141-151
_compute_expiry(cookies, created_at) ==
    LET m == MinExpiryFrom(cookies, 1, Null)
    IN IF m # Null THEN m ELSE Time(created_at + DEFAULT_SESSION_TTL)

\* SessionStore.save: the state written to the session file
save(cookies, t) ==
    [k |-> "state", cookies |-> cookies, created_at |-> t,
     expires_at |-> _compute_expiry(cookies, t)]

\* JSON values.  A string is kept by what it says: the isoformat of an
\* instant, the empty string, or some other text.  The key set of an
\* object is the domain of its field map.
JNull == [k |-> "jnull"]
JNum(n) == [k |-> "jnum", n |-> n]
JStr(text) == [k |-> "jstr", text |-> text]
JList(items) == [k |-> "jlist", items |-> items]
JObject(fields) == [k |-> "jobject", fields |-> fields]

\* datetime.isoformat
isoformat(time) == JStr([fmt |-> "iso", t |-> time.t])
EmptyText == JStr([fmt |-> "empty"])
OtherText == JStr([fmt |-> "other"])

\* dict.get(key): None for a key the object does not have
Get(object, key) ==
    IF key \in DOMAIN object.fields THEN object.fields[key] ELSE JNull

\* What a session file can hold: nothing (no file, Null), something that
\* cannot be opened, bytes that are not UTF-8, text that is not JSON (s
\* tells how much of a document it is), or a JSON document.
Unreadable == [k |-> "unreadable"]
NotUtf8 == [k |-> "bytes"]
NotJson(s) == [k |-> "text", s |-> s]
JsonFile(v) == [k |-> "json", v |-> v]

\* A variant of Dumped that leaves expires_at out of the document.
Dumped_NoExpiry(cookies, timestamp, expires_at) ==
    JObject([ key \in { "cookies", "created_at", "expires_at" } |->
                CASE key = "cookies" -> JList(cookies)
                  [] key = "created_at" -> isoformat(Time(timestamp))
                  [] key = "expires_at" -> JNull ])

\* SessionStore.save, lines 124-128: the document handed to json.dump
Dumped(cookies, timestamp, expires_at) ==
    JObject([ key \in { "cookies", "created_at", "expires_at" } |->
                CASE key = "cookies" -> JList(cookies)
                  [] key = "created_at" -> isoformat(Time(timestamp))
                  [] key = "expires_at" ->
                       IF expires_at # Null THEN isoformat(expires_at) ELSE JNull ])

\* SessionStore.save, lines 121-132: the session file after a save that
\* ran to its end
Written(cookies, t) == JsonFile(Dumped(cookies, t, _compute_expiry(cookies, t)))

\* SessionStore._parse_datetime
_parse_datetime(value) ==
    IF value.k # "jstr" \/ value.text.fmt = "empty" THEN Null
    ELSE IF value.text.fmt # "iso" THEN Null
    ELSE Time(value.text.t)

\* SessionStore.load: None for a missing file, for one that cannot be
\* opened and for text that is not JSON; the UnicodeDecodeError of bytes
\* that are not UTF-8 and the AttributeError of payload.get on a document
\* that is not an object are not caught
load(f) ==
    IF f = Null \/ f.k \in { "unreadable", "text" } THEN Null
    ELSE IF f.k = "bytes" THEN Raise
    ELSE IF f.v.k # "jobject" THEN Raise
    ELSE LET cookies == Get(f.v, "cookies")
             created_at == _parse_datetime(Get(f.v, "created_at"))
             expires_at == _parse_datetime(Get(f.v, "expires_at"))
         IN IF cookies.k # "jlist" \/ created_at = Null THEN Null
            ELSE [k |-> "state", cookies |-> cookies.items,
                  created_at |-> created_at.t, expires_at |-> expires_at]

\* SessionStore.is_expired
is_expired(st, t) ==
    IF st.expires_at # Null THEN t >= st.expires_at.t
    ELSE t >= st.created_at + DEFAULT_SESSION_TTL

\* what the login runner can do at time t: return the
\* cookies of a new browser context, raise ServiceMaintenanceError, or
\* raise another error.  "credentials" is get_credentials raising ValueError
\* before the login runner is reached.
LoginOutcomes(t) ==
    { [k |-> "ok", cookies |-> << Cookie(t, Num(0)), Cookie(t, Null) >>],
      [k |-> "maintenance"], [k |-> "error"], [k |-> "credentials"] }

AuthSession(cookies, reused) ==
    [k |-> "session", cookies |-> cookies, reused |-> reused, context |-> TRUE]

\* the condition under which ensure_session returns the cached session
CanReuse(st, live, t) == st # Null /\ ~is_expired(st, t) /\ live = "open"

\* A variant of ensure_session that runs the login a second time when the
\* first attempt failed.
ensure_session_Retry(f, live, t, lo) ==
    LET st == load(f)
    IN IF CanReuse(st, live, t)
       THEN [res |-> AuthSession(st.cookies, TRUE), file |-> f, live |-> live,
             login |-> FALSE, calls |-> << "load" >>]
       ELSE IF lo.k = "credentials"
       THEN [res |-> [k |-> "raise", err |-> "credentials"], file |-> f,
             live |-> "none", login |-> FALSE,
             calls |-> << "load", "close_live_context", "get_credentials" >>]
       ELSE IF lo.k = "ok"
       THEN [res |-> AuthSession(lo.cookies, FALSE), file |-> Written(lo.cookies, t),
             live |-> "open", login |-> TRUE,
             calls |-> << "load", "close_live_context", "get_credentials",
                          "login", "save" >>]
       ELSE [res |-> [k |-> "raise", err |-> lo.k], file |-> f,
             live |-> "none", login |-> TRUE,
             calls |-> << "load", "close_live_context", "get_credentials",
                          "login", "login" >>]

\* A variant of ensure_session that writes the session file also when the
\* cached session is reused.
ensure_session_SaveOnReuse(f, live, t, lo) ==
    LET st == load(f)
    IN IF CanReuse(st, live, t)
       THEN [res |-> AuthSession(st.cookies, TRUE), file |-> Written(st.cookies, t),
             live |-> live, login |-> FALSE, calls |-> << "load", "save" >>]
       ELSE IF lo.k = "credentials"
       THEN [res |-> [k |-> "raise", err |-> "credentials"], file |-> f,
             live |-> "none", login |-> FALSE,
             calls |-> << "load", "close_live_context", "get_credentials" >>]
       ELSE IF lo.k = "ok"
       THEN [res |-> AuthSession(lo.cookies, FALSE), file |-> Written(lo.cookies, t),
             live |-> "open", login |-> TRUE,
             calls |-> << "load", "close_live_context", "get_credentials",
                          "login", "save" >>]
       ELSE [res |-> [k |-> "raise", err |-> lo.k], file |-> f,
             live |-> "none", login |-> TRUE,
             calls |-> << "load", "close_live_context", "get_credentials",
                          "login" >>]

\* PlaywrightAuthClient.ensure_session at time t with the session file f and
\* the store's live context live, when the login step would do lo: the
\* result (a session or the error raised), the file and live context left
\* behind, whether the login runner was invoked, and the calls made to the
\* store, the credentials provider and the login runner, in order.
ensure_session(f, live, t, lo) ==
    LET st == load(f)
    IN IF st = Raise
       THEN [res |-> [k |-> "raise", err |-> "load"], file |-> f, live |-> live,
             login |-> FALSE, calls |-> << "load" >>]
       ELSE IF CanReuse(st, live, t)
       THEN [res |-> AuthSession(st.cookies, TRUE), file |-> f, live |-> live,
             login |-> FALSE, calls |-> << "load" >>]
       ELSE IF lo.k = "credentials"
       THEN [res |-> [k |-> "raise", err |-> "credentials"], file |-> f,
             live |-> "none", login |-> FALSE,
             calls |-> << "load", "close_live_context", "get_credentials" >>]
       ELSE IF lo.k = "ok"
       THEN [res |-> AuthSession(lo.cookies, FALSE), file |-> Written(lo.cookies, t),
             live |-> "open", login |-> TRUE,
             calls |-> << "load", "close_live_context", "get_credentials",
                          "login", "save" >>]
       ELSE [res |-> [k |-> "raise", err |-> lo.k], file |-> f,
             live |-> "none", login |-> TRUE,
             calls |-> << "load", "close_live_context", "get_credentials",
                          "login" >>]

\* ------------------------------------------------------------ orchestrator
Meter(id, ean) == [electrometer_id |-> id, ean |-> ean]

\* the deployments explored: the electrometer list, and whether a tariff
\* fetcher is passed to the constructor (main passes one when some meter has
\* an ean)
Deployments ==
    { [electrometers |-> << Meter("784703", "859182400100000001") >>,
       hdo_fetcher |-> TRUE],
      [electrometers |-> << Meter("784703", "859182400100000001"),
                            Meter("784704", "859182400100000002") >>,
       hdo_fetcher |-> TRUE],
      [electrometers |-> << Meter("784703", ""),
                            Meter("784704", "859182400100000002") >>,
       hdo_fetcher |-> TRUE],
      [electrometers |-> << Meter("784703", ""), Meter("784704", "") >>,
       hdo_fetcher |-> FALSE] }

\* a Python dict is a function on the set of its keys; {} is EmptyDict
EmptyDict == [ x \in {} |-> 0 ]
NoResults == [ n \in AssemblyNames |-> Null ]

VARIABLES
    pc,             \* position of the polling task
    cycle,          \* number of the current cycle
    now,            \* wall clock, hours
    electrometers,  \* OrchestratorConfig.electrometers
    hdo_fetcher,    \* TRUE when a tariff fetcher was passed to the constructor
    file,           \* content of the session file
    live,           \* the store's live browser context: none, open or closed
    session,        \* run_once: the session in use, Null when there is none
    meterIdx,       \* run_once: position in the electrometer loop
    asmIdx,         \* _fetch_all_assemblies: position in ASSEMBLY_CONFIGS
    fallback,       \* _fetch_assembly_with_fallback: the yesterday fetch is next
    results,        \* _fetch_all_assemblies: results of the current meter
    state,          \* run_once: the merged state of this cycle
    hdoIdx,         \* run_once: position in the tariff loop
    oddLeft,        \* unusual payloads the portal may still send this cycle
    faultsLeft,     \* deviating fetcher and tariff calls left this cycle (several meters)
    discovery,      \* publish_discovery calls
    authLog,        \* ensure_session calls of this cycle
    fetchLog,       \* fetcher calls of this cycle
    lastFetch,      \* _fetch_all_assemblies: what its most recent fetcher call did
    got,            \* reports of the current meter fetched with data so far
    pubLog,         \* publish_state calls of this cycle
    hdoLog          \* tariff fetcher calls of this cycle

\* The task structure of run_loop is studied on its own, with the calls of
\* run_once as steps that begin and end (LoopSpec below).
VARIABLES
    loop,           \* position of the run_loop task
    acts,           \* the run_once activations started so far, in order
    sleeps          \* completed poll-interval sleeps

\* SessionStore.save is studied on its own as a function of the cookies it
\* is given and the time of the call (SaveSpec below).
VARIABLES
    input,          \* the arguments of the call
    output          \* what the call wrote to the session file

loopVars == << loop, acts, sleeps >>
saveVars == << input, output >>
sideVars == << loopVars, saveVars >>

vars == << pc, cycle, now, electrometers, hdo_fetcher, file, live,
           session, meterIdx, asmIdx, fallback, results, state, hdoIdx,
           oddLeft, faultsLeft, discovery, authLog, fetchLog, lastFetch,
           got, pubLog, hdoLog, sideVars >>

orchVars == << pc, cycle, now, file, live, session, meterIdx, asmIdx, fallback,
               results, state, hdoIdx, oddLeft, faultsLeft, discovery, authLog,
               fetchLog, lastFetch, got, pubLog, hdoLog >>

configVars == << electrometers, hdo_fetcher >>
storeVars == << file, live >>
fetchVars == << meterIdx, asmIdx, fallback, results >>
fetchHist == << fetchLog, lastFetch, got, oddLeft, faultsLeft >>
fetchEnv == << oddLeft, faultsLeft >>

\* the session file left by an earlier run of the process, with a cookie
\* that expires before the second cycle
ShortSession == Written(<< Cookie(0, Num(0)), Cookie(0, Num(ShortCookieLife)) >>, 0)

\* the orchestrator is constructed with one of the deployments
ConfigInit ==
    \E d \in Deployments : /\ electrometers = d.electrometers
                           /\ hdo_fetcher = d.hdo_fetcher

LoopIdle == loop = "boot" /\ acts = << >> /\ sleeps = 0
SaveIdle == input = Null /\ output = Null

Init ==
    /\ pc = "boot"
    /\ cycle = 1
    /\ now = 0
    /\ ConfigInit
    /\ LoopIdle
    /\ SaveIdle
    /\ file \in { Null, ShortSession }
    /\ live = "none"
    /\ session = Null
    /\ meterIdx = 1
    /\ asmIdx = 1
    /\ fallback = FALSE
    /\ results = NoResults
    /\ state = EmptyDict
    /\ hdoIdx = 1
    /\ oddLeft = MaxOddPayloads
    /\ faultsLeft = MaxFaultsMulti
    /\ discovery = 0
    /\ authLog = << >>
    /\ fetchLog = << >>
    /\ lastFetch = Null
    /\ got = {}
    /\ pubLog = << >>
    /\ hdoLog = << >>

\* run_loop, line 129: the publisher is started
MqttStart ==
    /\ pc = "boot"
    /\ pc' = "started"
    /\ UNCHANGED << cycle, now, configVars, sideVars, storeVars, session, fetchVars, state,
                    hdoIdx, discovery, authLog, fetchHist, pubLog, hdoLog >>

\* run_loop, line 130, up to the first run_once: discovery is published
RunLoopStart ==
    /\ pc = "started"
    /\ pc' = "run_once"
    /\ discovery' = discovery + 1
    /\ UNCHANGED << cycle, now, configVars, sideVars, storeVars, session, fetchVars, state,
                    hdoIdx, authLog, fetchHist, pubLog, hdoLog >>

\* how an ensure_session call ended: with the cached session, a new one,
\* or the error raised
AuthResult(r) ==
    IF r.res.k = "session" THEN (IF r.res.reused THEN "reused" ELSE "fresh")
    ELSE r.res.err

\* the level at which run_once logs the failure of an ensure_session call
\* made at position at: at the start of the cycle (lines 141-153) there is
\* a handler for ServiceMaintenanceError and one for Exception, before the
\* tariff step (lines 193-201) one for Exception only
AuthLogLevel(at, res) ==
    IF res \in { "reused", "fresh" } THEN "none"
    ELSE IF at = "run_once"
    THEN (IF res = "maintenance" THEN "warning" ELSE "error")
    ELSE "error"

\* one ensure_session call, recorded in authLog
AuthCall(lo, r) ==
    /\ file' = r.file
    /\ live' = r.live
    /\ authLog' = Append(authLog,
                    [valid |-> load(file) # Null /\ ~is_expired(load(file), now),
                     login |-> r.login,
                     calls |-> r.calls,
                     at |-> pc,
                     kept |-> r.file = file,
                     level |-> AuthLogLevel(pc, AuthResult(r)),
                     res |-> AuthResult(r)])

\* AuthSession.has_live_context of session sess when the store's context is lv
has_live_context(sess, lv) == sess.context /\ lv = "open"

\* where run_once goes after the PND publish step (lines 190-246)
AfterPublish(sess, lv) ==
    IF ~hdo_fetcher THEN "sleep"
    ELSE IF ~has_live_context(sess, lv) THEN "hdo_reauth"
    ELSE IF Len(electrometers) = 0 THEN "sleep"
    ELSE "hdo"

\* A variant of InitialState that keeps the dict of the previous cycle, as a
\* state held in a field of the orchestrator would.
InitialState_Kept(prev) == prev

\* run_once, line 157: the state dict a cycle starts from, where prev is
\* what the previous cycle left behind
InitialState(prev) == EmptyDict

\* A variant of AfterEnsureSession without the two returns: the cycle goes on
\* after a failed ensure_session.
AfterEnsureSession_NoReturn(res) ==
    IF Len(electrometers) = 0 THEN "publish" ELSE "fetch"

\* run_once, lines 141-157: where the cycle goes with the result res of
\* ensure_session: both except branches return
AfterEnsureSession(res) ==
    IF res.k # "session" THEN "sleep"
    ELSE IF Len(electrometers) = 0 THEN "publish"
    ELSE "fetch"

\* run_once, lines 138-157: obtain the session; on any failure return, and
\* otherwise start the cycle's state
RunOnceBegin ==
    /\ pc = "run_once"
    /\ \E lo \in LoginOutcomes(now) :
         LET r == ensure_session(file, live, now, lo)
         IN /\ AuthCall(lo, r)
            /\ session' = IF r.res.k = "session" THEN r.res ELSE Null
            /\ state' = IF r.res.k = "session" THEN InitialState(state) ELSE state
            /\ pc' = AfterEnsureSession(r.res)
    /\ UNCHANGED << cycle, now, configVars, sideVars, fetchVars, hdoIdx, discovery,
                    fetchHist, pubLog, hdoLog >>

\* A variant of HasDataOrDefault that never sees "no data".
HasDataOrDefault_Always(p) == TRUE

\* payload.get("hasData", True) and payload.get("hasData")
HasDataOrDefault(p) == p.hasData # "false"
HasDataTruthy(p) == p.hasData = "true"

\* A variant of FetchCookies in which the token set is cut down to its
\* first cookie once a fetch has been made.
FetchCookies_Trimmed(sess, n) ==
    IF n = 0 THEN sess.cookies ELSE SubSeq(sess.cookies, 1, 1)

\* run_once, lines 155-160: the cookies handed to the fetcher after n
\* fetches of the cycle are those of the session of line 142, bound once
FetchCookies(sess, n) == sess.cookies

\* A variant of StoreResult in which an exception of one report discards
\* the reports collected before it.
StoreResult_DropOnError(res, name, out) ==
    IF out.k \in { "error", "expired" } THEN [ n \in DOMAIN res |-> Null ]
    ELSE IF out.k = "payload" /\ out.hasData = "true"
    THEN [res EXCEPT ![name] = out]
    ELSE res

\* _fetch_all_assemblies, lines 323-348: the result map after the report name
\* was fetched with outcome out; an exception and a payload without data
\* leave the map as it is
StoreResult(res, name, out) ==
    IF out.k = "payload" /\ HasDataTruthy(out)
    THEN [res EXCEPT ![name] = out]
    ELSE res

\* One call of the fetcher inside _fetch_assembly_with_fallback, and the code
\* of _fetch_all_assemblies around it (lines 275-297 and 323-348): the first
\* fetch of a report with fallback_yesterday that has no data is followed by
\* the yesterday fetch; otherwise the report is stored when its payload has
\* data, and an exception leaves it out.
Fetch ==
    /\ pc = "fetch"
    /\ LET config == ASSEMBLY_CONFIGS[asmIdx]
           meter_id == electrometers[meterIdx].electrometer_id
           limited == Len(electrometers) > 1
       IN \E out \in FetchOutcomes(config.id, meter_id, cycle,
                                   ~limited \/ faultsLeft > 0, oddLeft > 0) :
            LET isPayload == out.k = "payload"
                retry == /\ ~fallback
                         /\ isPayload
                         /\ config.fallback_yesterday
                         /\ ~HasDataOrDefault(out)
            IN /\ fetchLog' = Append(fetchLog,
                                [meter |-> meterIdx, id |-> config.id,
                                 window |-> IF fallback THEN "yesterday" ELSE "today",
                                 cookies |-> FetchCookies(session, Len(fetchLog))])
               /\ lastFetch' = [k |-> IF out \in { FetchError, FetchExpired }
                                       THEN out.k
                                       ELSE IF out = NoDataPayload THEN "nodata"
                                       ELSE "returned"]
               /\ got' = IF isPayload /\ out.hasData = "true"
                         THEN got \cup { config.name } ELSE got
               /\ oddLeft' = IF out \in { FetchError, FetchExpired, NoDataPayload,
                                          NominalPayload(config.id, meter_id, cycle) }
                             THEN oddLeft ELSE oddLeft - 1
               /\ faultsLeft' = IF limited /\ out # NominalPayload(config.id, meter_id, cycle)
                                THEN faultsLeft - 1 ELSE faultsLeft
               /\ IF retry
                  THEN /\ fallback' = TRUE
                       /\ UNCHANGED << asmIdx, results, pc >>
                  ELSE /\ fallback' = FALSE
                       /\ results' = StoreResult(results, config.name, out)
                       /\ asmIdx' = IF asmIdx = NumAssemblies THEN 1 ELSE asmIdx + 1
                       /\ pc' = IF asmIdx = NumAssemblies THEN "merge" ELSE "fetch"
    /\ UNCHANGED << cycle, now, configVars, sideVars, storeVars, session, meterIdx, state,
                    hdoIdx, discovery, authLog, pubLog, hdoLog >>

\* the parser key of each sensor key of _PARSER_KEY_TO_SENSOR_KEY
ParserKeyOf ==
    [ sk \in SensorKeySet |-> CHOOSE x \in ParserKeySet : _PARSER_KEY_TO_SENSOR_KEY[x] = sk ]

\* run_once, lines 164-165: CezDataParser(payload).get_latest_reading_dict()
LatestReadingOf(payload) ==
    LET parser == CezDataParser(payload)
    IN IF parser = Raise THEN Raise ELSE get_latest_reading_dict(parser)

\* run_once, lines 168-176: the state dict after the values of one reading
\* that are not None were written under reading_meter_id, whose entry is
\* created first
\* the merge without the test that skips the electrometer_id entry
WriteReading_KeepMeterId(st, reading, meter_id) ==
    LET reading_meter_id == IF reading.electrometer_id # Null
                            THEN reading.electrometer_id.s ELSE meter_id
        old == IF reading_meter_id \in DOMAIN st THEN st[reading_meter_id]
               ELSE EmptyDict
        kept == { sk \in SensorKeySet : reading.vals[ParserKeyOf[sk]] # Null }
        entry == [ sk \in DOMAIN old \cup kept \cup { "electrometer_id" } |->
                     IF sk \in kept THEN reading.vals[ParserKeyOf[sk]].val
                     ELSE IF sk \in DOMAIN old THEN old[sk] ELSE 0 ]
    IN [ m \in DOMAIN st \cup { reading_meter_id } |->
           IF m = reading_meter_id THEN entry ELSE st[m] ]

WriteReading(st, reading, meter_id) ==
    LET reading_meter_id == IF reading.electrometer_id # Null
                            THEN reading.electrometer_id.s ELSE meter_id
        old == IF reading_meter_id \in DOMAIN st THEN st[reading_meter_id]
               ELSE EmptyDict
        written == { sk \in SensorKeySet : reading.vals[ParserKeyOf[sk]] # Null }
        entry == [ sk \in DOMAIN old \cup written |->
                     IF sk \in written THEN reading.vals[ParserKeyOf[sk]].val
                     ELSE old[sk] ]
    IN [ m \in DOMAIN st \cup { reading_meter_id } |->
           IF m = reading_meter_id THEN entry ELSE st[m] ]

\* run_once, lines 163-176, over the reports ASSEMBLY_CONFIGS[i..] that are
\* in the result map (the map keeps the order of the fetches): the merged
\* state, or Raise when parsing a payload raises
RECURSIVE MergeFrom(_, _, _, _)
MergeFrom(res, i, meter_id, st) ==
    IF i > NumAssemblies THEN [k |-> "ok", state |-> st]
    ELSE LET payload == res[ASSEMBLY_CONFIGS[i].name]
         IN IF payload = Null THEN MergeFrom(res, i + 1, meter_id, st)
            ELSE LET reading == LatestReadingOf(payload)
                 IN IF reading = Raise THEN Raise
                    ELSE IF reading = Null THEN MergeFrom(res, i + 1, meter_id, st)
                    ELSE MergeFrom(res, i + 1, meter_id,
                                   WriteReading(st, reading, meter_id))

\* run_once, lines 160-176 after _fetch_all_assemblies returned for one
\* meter: merge its reports and go on with the next meter.  An exception of
\* the parser is not caught and leaves run_once and run_loop.
Merge ==
    /\ pc = "merge"
    /\ LET merged == MergeFrom(results, 1, electrometers[meterIdx].electrometer_id, state)
       IN IF merged = Raise
          THEN /\ pc' = "crashed"
               /\ UNCHANGED << state, meterIdx >>
          ELSE /\ state' = merged.state
               /\ meterIdx' = IF meterIdx = Len(electrometers) THEN 1 ELSE meterIdx + 1
               /\ pc' = IF meterIdx = Len(electrometers) THEN "publish" ELSE "fetch"
    /\ results' = NoResults
    /\ lastFetch' = Null
    /\ got' = {}
    /\ oddLeft' = IF meterIdx = Len(electrometers) THEN MaxOddPayloads ELSE oddLeft
    /\ UNCHANGED faultsLeft
    /\ UNCHANGED << cycle, now, configVars, sideVars, storeVars, session, asmIdx, fallback,
                    hdoIdx, discovery, authLog, fetchLog, pubLog, hdoLog >>

\* "if state:" is false for the empty dict only
StateIsEmpty(st) == DOMAIN st = {}

\* run_once, lines 178-188: publish the merged state unless it is empty; an
\* exception of publish_state is caught
Publish ==
    /\ pc = "publish"
    /\ IF StateIsEmpty(state)
       THEN UNCHANGED pubLog
       ELSE \E ok \in BOOLEAN : pubLog' = Append(pubLog, [state |-> state, ok |-> ok])
    /\ pc' = AfterPublish(session, live)
    /\ UNCHANGED << cycle, now, configVars, sideVars, storeVars, session, fetchVars, state,
                    hdoIdx, discovery, authLog, fetchHist, hdoLog >>

\* run_once, lines 191-203 and 235-239: the session's context is dead, so
\* ensure_session is called again; without a live context the tariff step
\* is skipped
HdoReauth ==
    /\ pc = "hdo_reauth"
    /\ \E lo \in LoginOutcomes(now) :
         LET r == ensure_session(file, live, now, lo)
         IN /\ AuthCall(lo, r)
            /\ session' = IF r.res.k = "session" THEN r.res ELSE Null
            /\ pc' = IF r.res.k = "session" /\ has_live_context(r.res, r.live)
                        /\ Len(electrometers) > 0
                     THEN "hdo" ELSE "sleep"
    /\ UNCHANGED << cycle, now, configVars, sideVars, fetchVars, state, hdoIdx, discovery,
                    fetchHist, pubLog, hdoLog >>

\* what the tariff step of one meter can do: publish, or fail in the fetch
\* (maintenance, token, other), in parse_hdo_signals or in publish_hdo_state
HdoOutcomes == { "ok", "maintenance", "token", "fetch_error", "parse_error",
                 "publish_error" }

\* with several meters the failures of the tariff step count among the
\* deviating calls of the cycle
HdoOutcomesLeft(limited, left) ==
    IF limited /\ left = 0 THEN { "ok" } ELSE HdoOutcomes

\* A variant of HdoNext in which a failure of one meter's tariff step ends
\* the tariff loop, as it would without the handlers inside the iteration.
HdoNext_StopOnFailure(i, n, out) ==
    IF i = n \/ out \notin { "ok", "skipped" }
    THEN [pc |-> "sleep", hdoIdx |-> 1]
    ELSE [pc |-> "hdo", hdoIdx |-> i + 1]

\* run_once, lines 205-234: where the tariff loop over n meters goes after
\* the iteration of the i-th meter ended with out; the handlers of lines
\* 218-234 end the iteration only
HdoNext(i, n, out) ==
    IF i = n
    THEN [pc |-> "sleep", hdoIdx |-> 1]
    ELSE [pc |-> "hdo", hdoIdx |-> i + 1]

\* run_once, lines 205-234: one iteration of the tariff loop; a meter
\* without ean is skipped, every exception is caught inside the iteration
Hdo ==
    /\ pc = "hdo"
    /\ LET electrometer == electrometers[hdoIdx]
       IN IF electrometer.ean = ""
          THEN /\ UNCHANGED << hdoLog, faultsLeft >>
               /\ hdoIdx' = HdoNext(hdoIdx, Len(electrometers), "skipped").hdoIdx
               /\ pc' = HdoNext(hdoIdx, Len(electrometers), "skipped").pc
          ELSE \E out \in HdoOutcomesLeft(Len(electrometers) > 1, faultsLeft) :
                 /\ hdoLog' = Append(hdoLog,
                                [meter_id |-> electrometer.electrometer_id,
                                 ean |-> electrometer.ean, out |-> out])
                 /\ faultsLeft' = IF Len(electrometers) > 1 /\ out # "ok"
                                  THEN faultsLeft - 1 ELSE faultsLeft
                 /\ hdoIdx' = HdoNext(hdoIdx, Len(electrometers), out).hdoIdx
                 /\ pc' = HdoNext(hdoIdx, Len(electrometers), out).pc
    /\ UNCHANGED << cycle, now, configVars, sideVars, storeVars, session, fetchVars, state,
                    discovery, authLog, fetchLog, lastFetch, got, oddLeft, pubLog >>

\* A variant of LoopBack in which the loop of run_loop would enclose the
\* publication of discovery.
LoopBack_ToDiscovery == "started"

\* run_loop, lines 132-134: after the sleep the loop continues with run_once
LoopBack == "run_once"

\* run_loop, line 134: sleep for the poll interval, then run the next cycle,
\* whose logs start empty
Sleep ==
    /\ pc = "sleep"
    /\ cycle < MaxCycles
    /\ cycle' = cycle + 1
    /\ now' = now + PollInterval
    /\ pc' = LoopBack
    /\ authLog' = << >>
    /\ fetchLog' = << >>
    /\ pubLog' = << >>
    /\ hdoLog' = << >>
    /\ faultsLeft' = MaxFaultsMulti
    /\ UNCHANGED << configVars, sideVars, storeVars, session, fetchVars, state, hdoIdx,
                    discovery, lastFetch, got, oddLeft >>

\* The browser context of the store dies (browser crash, context closed).
\* The context is looked at by has_live_context after the PND publish and by
\* the next ensure_session only, so its death is placed right before these.
BrowserCrash ==
    /\ live = "open"
    /\ pc \in { "publish", "run_once" }
    /\ live' = "closed"
    /\ UNCHANGED << pc, cycle, now, configVars, sideVars, file, session, fetchVars,
                    state, hdoIdx, discovery, authLog, fetchHist, pubLog, hdoLog >>

Next ==
    \/ MqttStart
    \/ RunLoopStart
    \/ RunOnceBegin
    \/ Fetch
    \/ Merge
    \/ Publish
    \/ HdoReauth
    \/ Hdo
    \/ Sleep
    \/ BrowserCrash

Spec == Init /\ [][Next]_vars

\* ============================================================ the run loop
\* run_loop and the run_once coroutines it starts, as tasks of the event
\* loop. A collaborator call of run_once begins, is in flight, and ends;
\* between its calls a coroutine holds the event loop only while it runs.

\* the tariff calls of run_once for the meters, in order: a meter without
\* ean is skipped
RECURSIVE HdoCalls(_)
HdoCalls(meters) ==
    IF meters = << >> THEN << >>
    ELSE (IF Head(meters).ean = "" THEN << >>
          ELSE << "fetch_hdo", "publish_hdo_state" >>) \o HdoCalls(Tail(meters))

\* the report fetches of run_once: every report of every meter
ReportCalls(meters) == [ i \in 1..(Len(meters) * NumAssemblies) |-> "fetch" ]

\* the collaborator calls of one run_once in which nothing fails
RunOnceCalls(meters, hdo) ==
    << "ensure_session" >> \o ReportCalls(meters) \o << "publish_state" >>
        \o (IF hdo THEN HdoCalls(meters) ELSE << >>)

\* A variant of run_loop that starts run_once as a task of its own and goes
\* to sleep at once.
AwaitsRunOnce_Spawned == FALSE

\* run_loop, line 133: run_once is awaited
AwaitsRunOnce == TRUE

Activation(at, st, fallback_done) == [at |-> at, st |-> st, fallback |-> fallback_done]

CallsOfRun == RunOnceCalls(electrometers, hdo_fetcher)

\* the variables of the polling task, where the task is not looked at
OrchIdle ==
    /\ pc = "boot" /\ cycle = 1 /\ now = 0 /\ file = Null /\ live = "none"
    /\ session = Null /\ meterIdx = 1 /\ asmIdx = 1 /\ fallback = FALSE
    /\ results = NoResults /\ state = EmptyDict /\ hdoIdx = 1
    /\ oddLeft = 0 /\ faultsLeft = 0 /\ discovery = 0
    /\ authLog = << >> /\ fetchLog = << >> /\ lastFetch = Null /\ got = {}
    /\ pubLog = << >> /\ hdoLog = << >>

LoopInit ==
    /\ ConfigInit
    /\ LoopIdle
    /\ SaveIdle
    /\ OrchIdle

\* run_loop, lines 129-130: the publisher is started and discovery is
\* published, both without suspending
LoopBoot ==
    /\ loop = "boot"
    /\ loop' = "ready"
    /\ UNCHANGED << acts, sleeps, orchVars, configVars, saveVars >>

\* run_loop, line 133: run_once is entered
LoopRunOnce ==
    /\ loop = "ready"
    /\ acts' = Append(acts, Activation(1, "idle", FALSE))
    /\ loop' = IF AwaitsRunOnce THEN "awaiting" ELSE "sleeping"
    /\ UNCHANGED << sleeps, orchVars, configVars, saveVars >>

\* the c-th run_once makes its next call
CallBegin(c) ==
    /\ acts[c].st = "idle"
    /\ acts' = [acts EXCEPT ![c].st = "calling"]
    /\ UNCHANGED << loop, sleeps, orchVars, configVars, saveVars >>

\* what the end of a call leads to in run_once: the next call; the return
\* of run_once (after the last call, or when ensure_session failed); the
\* yesterday fetch of the last report of a meter; or an exception of the
\* merge after the last report of a meter, which leaves run_once
CallEnds(a) ==
    LET call == CallsOfRun[a.at]
        last_report == call = "fetch" /\ (a.at - 1) % NumAssemblies = 0
    IN  { Activation(a.at + 1,
                     IF a.at = Len(CallsOfRun) THEN "returned" ELSE "idle",
                     IF last_report THEN FALSE ELSE a.fallback) }
        \cup (IF call = "ensure_session"
              THEN { Activation(a.at, "returned", a.fallback) } ELSE {})
        \cup (IF last_report /\ ~a.fallback
              THEN { Activation(a.at, "idle", TRUE) } ELSE {})
        \cup (IF last_report
              THEN { Activation(a.at, "raised", a.fallback) } ELSE {})

\* a call of the c-th run_once ends
CallEnd(c) ==
    /\ acts[c].st = "calling"
    /\ \E a \in CallEnds(acts[c]) : acts' = [acts EXCEPT ![c] = a]
    /\ UNCHANGED << loop, sleeps, orchVars, configVars, saveVars >>

\* run_loop, lines 133-134: the awaited run_once returned and the loop goes
\* to sleep, or it raised and the loop ends with it
LoopResume ==
    /\ loop = "awaiting"
    /\ acts[Len(acts)].st \in { "returned", "raised" }
    /\ loop' = IF acts[Len(acts)].st = "returned" THEN "sleeping" ELSE "crashed"
    /\ UNCHANGED << acts, sleeps, orchVars, configVars, saveVars >>

\* run_loop, line 134: the sleep of the poll interval is over
LoopSleepDone ==
    /\ loop = "sleeping"
    /\ Len(acts) < MaxCycles
    /\ sleeps' = sleeps + 1
    /\ loop' = "ready"
    /\ UNCHANGED << acts, orchVars, configVars, saveVars >>

LoopNext ==
    \/ LoopBoot
    \/ LoopRunOnce
    \/ \E c \in 1..Len(acts) : CallBegin(c)
    \/ \E c \in 1..Len(acts) : CallEnd(c)
    \/ LoopResume
    \/ LoopSleepDone

LoopSpec == LoopInit /\ [][LoopNext]_vars

\* ======================================================== SessionStore.save
\* save is applied to cookie lists of up to MaxCookies cookies whose expires
\* field is missing, zero, negative or a time up to MaxExpiry, at save times
\* up to MaxSaveTime.
ExpiryValues == { Null } \cup { Num(n) : n \in (-1)..MaxExpiry }

RECURSIVE CookieLists(_)
CookieLists(n) ==
    IF n = 0 THEN { << >> }
    ELSE CookieLists(n - 1)
         \cup { Append(l, Cookie(0, e)) :
                  l \in { x \in CookieLists(n - 1) : Len(x) = n - 1 },
                  e \in ExpiryValues }

SaveInit ==
    /\ input \in [cookies : CookieLists(MaxCookies), t : 0..MaxSaveTime]
    /\ output = Null
    /\ electrometers = << >>
    /\ hdo_fetcher = FALSE
    /\ LoopIdle
    /\ OrchIdle

\* SessionStore.save(cookies) at time t
SaveCall ==
    /\ output = Null
    /\ output' = save(input.cookies, input.t)
    /\ UNCHANGED << input, orchVars, configVars, loopVars >>

SaveNext == SaveCall

SaveSpec == SaveInit /\ [][SaveNext]_vars

\* ================================================== SessionStore.is_expired
\* is_expired is applied to states created up to MaxSaveTime, with no
\* expires_at or one up to MaxExpiry, at reference times up to the end of
\* the fallback lifetime and one hour beyond.
PureIdle ==
    /\ electrometers = << >>
    /\ hdo_fetcher = FALSE
    /\ LoopIdle
    /\ OrchIdle

SessionStates ==
    { [k |-> "state", cookies |-> << >>, created_at |-> c, expires_at |-> e] :
        c \in 0..MaxSaveTime,
        e \in { Null } \cup { Time(x) : x \in 0..MaxExpiry } }

Bool(b) == [k |-> "bool", v |-> b]

ExpiryInit ==
    /\ input \in [state : SessionStates,
                  now : 0..(MaxSaveTime + DEFAULT_SESSION_TTL + 1)]
    /\ output = Null
    /\ PureIdle

\* SessionStore.is_expired(state, now)
IsExpiredCall ==
    /\ output = Null
    /\ output' = Bool(is_expired(input.state, input.now))
    /\ UNCHANGED << input, orchVars, configVars, loopVars >>

ExpiryNext == IsExpiredCall

ExpirySpec == ExpiryInit /\ [][ExpiryNext]_vars

\* ------------------------------------------------------------- LoadSpec
\* SessionStore.load and ensure_session over the contents a session file
\* can have.
Missing == [k |-> "missing"]

\* values found under "cookies"
CookiesValues ==
    { JList(<< >>), JList(<< Cookie(0, Null) >>), JNull, OtherText, JNum(0),
      JObject(EmptyDict) }

\* values found under "created_at" and "expires_at"
TimeValues(max) ==
    { isoformat(Time(t)) : t \in 0..max }
    \cup { EmptyText, OtherText, JNull, JNum(0), JList(<< >>) }

\* the object with the given values, a key whose value is Missing left out
ObjectOf(cookies, created_at, expires_at) ==
    LET given == [ key \in { "cookies", "created_at", "expires_at" } |->
                     CASE key = "cookies" -> cookies
                       [] key = "created_at" -> created_at
                       [] key = "expires_at" -> expires_at ]
    IN JObject([ key \in { x \in DOMAIN given : given[x] # Missing } |-> given[key] ])

FileContents ==
    { Null, Unreadable, NotUtf8, NotJson("empty"), NotJson("truncated"),
      NotJson("other") }
    \cup { JsonFile(v) : v \in { JNull, JNum(0), OtherText, JList(<< >>) } }
    \cup { JsonFile(ObjectOf(c, a, e)) :
              c \in CookiesValues \cup { Missing },
              a \in TimeValues(MaxSaveTime) \cup { Missing },
              e \in TimeValues(MaxExpiry) \cup { Missing } }

LoadInit ==
    /\ input \in [file : FileContents, now : { MaxSaveTime }]
    /\ output = Null
    /\ PureIdle

\* SessionStore.load on the file, and ensure_session on the same file with
\* no live context and a login that succeeds
LoadCall ==
    /\ output = Null
    /\ output' = [k |-> "loaded", loaded |-> load(input.file),
                  session |-> ensure_session(input.file, "none", input.now,
                                             [k |-> "ok", cookies |-> << Cookie(input.now, Null) >>])]
    /\ UNCHANGED << input, orchVars, configVars, loopVars >>

LoadNext == LoadCall

LoadSpec == LoadInit /\ [][LoadNext]_vars

\* -------------------------------------------------------- RoundTripSpec
\* SessionStore.save followed by SessionStore.load of the file it wrote.
\* The save time is an instant in UTC, as datetime.now(tz=timezone.utc)
\* gives it to every save the add-on makes.
RoundTripCall ==
    /\ output = Null
    /\ output' = [k |-> "roundtrip", saved |-> save(input.cookies, input.t),
                  file |-> Written(input.cookies, input.t),
                  loaded |-> load(Written(input.cookies, input.t))]
    /\ UNCHANGED << input, orchVars, configVars, loopVars >>

RoundTripNext == RoundTripCall

RoundTripSpec == SaveInit /\ [][RoundTripNext]_vars

\* ----------------------------------------------------------- AtomicSpec
\* SessionStore.save step by step, over a file left by an earlier save or
\* no file, with the process stopped between any two steps, and the load
\* of the next start.
Pending == [k |-> "pending"]

Saving(at, f, loaded) == [k |-> "saving", at |-> at, file |-> f, loaded |-> loaded]

AtomicInit ==
    /\ input \in [old : { Null, Written(<< Cookie(0, Null) >>, 0) },
                   cookies : CookieLists(MaxCookies), t : 0..MaxSaveTime]
    /\ output = Saving("start", input.old, Pending)
    /\ PureIdle

\* line 122: self._path.open("w") creates the file or truncates it
SaveOpen ==
    /\ output.at = "start"
    /\ output' = Saving("opened", NotJson("empty"), Pending)
    /\ UNCHANGED << input, orchVars, configVars, loopVars >>

\* lines 123-132: json.dump writes the document piece by piece
SaveDump ==
    /\ output.at = "opened"
    /\ output' = Saving("writing", NotJson("truncated"), Pending)
    /\ UNCHANGED << input, orchVars, configVars, loopVars >>

\* the end of the with block: the rest is written and the file closed
SaveClose ==
    /\ output.at \in { "opened", "writing" }
    /\ output' = Saving("done", Written(input.cookies, input.t), Pending)
    /\ UNCHANGED << input, orchVars, configVars, loopVars >>

\* the process is stopped before save returns
Interrupt ==
    /\ output.at \in { "start", "opened", "writing" }
    /\ output' = Saving("interrupted", output.file, Pending)
    /\ UNCHANGED << input, orchVars, configVars, loopVars >>

\* SessionStore.load after the save or after the restart
LoadAfter ==
    /\ output.at \in { "done", "interrupted" }
    /\ output.loaded = Pending
    /\ output' = Saving(output.at, output.file, load(output.file))
    /\ UNCHANGED << input, orchVars, configVars, loopVars >>

AtomicNext == SaveOpen \/ SaveDump \/ SaveClose \/ Interrupt \/ LoadAfter

AtomicSpec == AtomicInit /\ [][AtomicNext]_vars

\* ---------------------------------------------------------- tariff parser
\* hdo_parser.py.  A time of day is a number of minutes after midnight, a
\* datetime is a day (0 for today, 1 for tomorrow) and a time of day.  The
\* text of a time is "HH:MM" with the two numbers it shows, or text that
\* is not of that form.
HHMM(h, m) == [k |-> "hhmm", h |-> h, m |-> m]
BadTime == [k |-> "badtime"]
Tod(min) == [k |-> "tod", min |-> min]
DateTime(day, min) == [k |-> "datetime", day |-> day, min |-> min]
TimeFormatError == [k |-> "raise", err |-> "time_format"]

\* time(h, m) of the datetime module
MinuteOf(h, m) == h * 60 + m

\* _time_from_str: "24:00" is midnight; strptime raises ValueError for text
\* that is not a time of day
_time_from_str(s) ==
    IF s = HHMM(24, 0) THEN Tod(MinuteOf(0, 0))
    ELSE IF s.k = "hhmm" /\ s.h \in 0..23 /\ s.m \in 0..59 THEN Tod(MinuteOf(s.h, s.m))
    ELSE TimeFormatError

\* the segments of a schedule text between semicolons: blank, text without
\* a dash, or start-end
Blank == [k |-> "blank"]
NoDash == [k |-> "nodash"]
Segment(start, end) == [k |-> "segment", start |-> start, end |-> end]

\* _parse_time_ranges over parts[i..]
RECURSIVE ParseRangesFrom(_, _)
ParseRangesFrom(parts, i) ==
    IF i > Len(parts) THEN << >>
    ELSE IF parts[i].k \in { "blank", "nodash" } THEN ParseRangesFrom(parts, i + 1)
    ELSE << << parts[i].start, parts[i].end >> >> \o ParseRangesFrom(parts, i + 1)

_parse_time_ranges(casy) == ParseRangesFrom(casy, 1)

\* _is_in_low_tariff over ranges[i..]: the loop returns at the first range
\* that holds now_time, and raises at a range whose times do not parse
RECURSIVE InLowTariffFrom(_, _, _)
InLowTariffFrom(now_time, ranges, i) ==
    IF i > Len(ranges) THEN Bool(FALSE)
    ELSE LET start == _time_from_str(ranges[i][1])
             end == _time_from_str(ranges[i][2])
         IN IF start.k = "raise" \/ end.k = "raise" THEN TimeFormatError
            ELSE IF end.min = MinuteOf(0, 0) /\ start.min # MinuteOf(0, 0)
            THEN IF now_time >= start.min THEN Bool(TRUE)
                 ELSE InLowTariffFrom(now_time, ranges, i + 1)
            ELSE IF start.min <= now_time /\ now_time < end.min THEN Bool(TRUE)
            ELSE InLowTariffFrom(now_time, ranges, i + 1)

_is_in_low_tariff(now_time, ranges) == InLowTariffFrom(now_time, ranges, 1)

\* _find_next_switch, lines 89-98: the boundaries collected from
\* ranges[i..], appended to acc
RECURSIVE BoundariesFrom(_, _, _)
BoundariesFrom(ranges, i, acc) ==
    IF i > Len(ranges) THEN [k |-> "ok", times |-> acc]
    ELSE LET start == _time_from_str(ranges[i][1])
             end == _time_from_str(ranges[i][2])
         IN IF start.k = "raise" \/ end.k = "raise" THEN TimeFormatError
            ELSE BoundariesFrom(ranges, i + 1,
                                IF end.min # MinuteOf(0, 0)
                                THEN acc \o << start.min, end.min >>
                                ELSE acc \o << start.min >>)

\* list.sort
RECURSIVE InsertSorted(_, _)
InsertSorted(x, s) ==
    IF s = << >> THEN << x >>
    ELSE IF x <= Head(s) THEN << x >> \o s
    ELSE << Head(s) >> \o InsertSorted(x, Tail(s))

\* A variant of SortTimes that leaves the list as it is.
SortTimes_Unsorted(s) == s

RECURSIVE SortTimes(_)
SortTimes(s) == IF s = << >> THEN << >> ELSE InsertSorted(Head(s), SortTimes(Tail(s)))

\* _find_next_switch, lines 103-105: the index of the first boundary after
\* now_time, 0 when there is none
RECURSIVE FirstAfter(_, _, _)
FirstAfter(boundaries, i, now_time) ==
    IF i > Len(boundaries) THEN 0
    ELSE IF boundaries[i] > now_time THEN i
    ELSE FirstAfter(boundaries, i + 1, now_time)

_find_next_switch(now_, ranges) ==
    LET collected == BoundariesFrom(ranges, 1, << >>)
    IN IF collected.k = "raise" THEN collected
       ELSE LET boundaries == SortTimes(collected.times)
                b == FirstAfter(boundaries, 1, now_.min)
            IN IF b # 0 THEN DateTime(now_.day, boundaries[b])
               ELSE IF boundaries # << >> THEN DateTime(now_.day + 1, boundaries[1])
               ELSE DateTime(now_.day + 1, MinuteOf(0, 0))

\* ----------------------------------------------------------- TariffSpec
\* _is_in_low_tariff and _find_next_switch over schedules whose times lie
\* on the cuts of the day into DaySlots parts, called on a cut or half an
\* hour after it.
SlotHours == 24 \div DaySlots

GridTexts == { HHMM(i * SlotHours, 0) : i \in 0..DaySlots }

NowTimes == { MinuteOf(i * SlotHours, m) : i \in 0..(DaySlots - 1), m \in { 0, 30 } }

RECURSIVE WindowLists(_)
WindowLists(n) ==
    IF n = 0 THEN { << >> }
    ELSE WindowLists(n - 1)
         \cup { Append(l, << s, e >>) :
                  l \in { x \in WindowLists(n - 1) : Len(x) = n - 1 },
                  s \in GridTexts, e \in GridTexts }

TariffInit ==
    /\ input \in [now : NowTimes, ranges : WindowLists(MaxWindows)]
    /\ output = Null
    /\ PureIdle

\* parse_hdo_signals, lines 152-156, at time input.now of today
TariffCall ==
    /\ output = Null
    /\ output' = [k |-> "tariff",
                  is_low |-> _is_in_low_tariff(input.now, input.ranges),
                  next_switch |-> _find_next_switch(DateTime(0, input.now), input.ranges)]
    /\ UNCHANGED << input, orchVars, configVars, loopVars >>

TariffNext == TariffCall

TariffSpec == TariffInit /\ [][TariffNext]_vars

\* ---------------------------------------------------------- SignalsSpec
\* parse_hdo_signals over feeds with no signal list, an empty one, and one
\* or two entries whose schedule text is missing, None, empty or a list of
\* segments.

\* the text of a schedule with the given segments between semicolons
CasyText(parts) == JStr([fmt |-> "casy", parts |-> parts])

\* "not value" of Python for the values a feed holds
Falsy(value) == value \in { JNull, EmptyText, JList(<< >>), JNum(0) }

\* dict.get(key, default)
GetOr(object, key, default) ==
    IF key \in DOMAIN object.fields THEN object.fields[key] ELSE default

NoSignalsError == [k |-> "raise", err |-> "No signals found in data"]
NoScheduleError == [k |-> "raise", err |-> "No time schedule (casy) found in signal data"]

HdoData(is_low_tariff, next_switch, today_schedule, signal_name) ==
    [k |-> "hdo", is_low_tariff |-> is_low_tariff, next_switch |-> next_switch,
     today_schedule |-> today_schedule, signal_name |-> signal_name]

\* parse_hdo_signals, lines 115-163, at the time now_ of today
parse_hdo_signals(signals_data, now_) ==
    LET signals == Get(signals_data, "signals")
    IN IF Falsy(signals) THEN NoSignalsError
       ELSE LET signal == signals.items[1]
                signal_name == GetOr(signal, "signal", EmptyText)
                casy == GetOr(signal, "casy", EmptyText)
            IN IF Falsy(casy) THEN NoScheduleError
               ELSE LET schedule == _parse_time_ranges(casy.text.parts)
                        is_low == _is_in_low_tariff(now_, schedule)
                        next_switch == _find_next_switch(DateTime(0, now_), schedule)
                    IN IF is_low.k = "raise" THEN is_low
                       ELSE IF next_switch.k = "raise" THEN next_switch
                       ELSE HdoData(is_low.v, next_switch, schedule, signal_name)

SegmentTexts == { HHMM(0, 0), HHMM(SlotHours, 0), HHMM(24, 0), BadTime }

Segments == { Blank, NoDash } \cup { Segment(s, e) : s \in SegmentTexts, e \in SegmentTexts }

RECURSIVE SegmentLists(_)
SegmentLists(n) ==
    IF n = 1 THEN { << p >> : p \in Segments }
    ELSE SegmentLists(n - 1)
         \cup { Append(l, p) : l \in { x \in SegmentLists(n - 1) : Len(x) = n - 1 },
                               p \in Segments }

\* a signal entry; casy = Missing leaves the key out
SignalEntry(name, casy) ==
    JObject([ key \in { "signal" } \cup (IF casy = Missing THEN {} ELSE { "casy" }) |->
                IF key = "signal" THEN name ELSE casy ])

\* first entries whose schedule text has up to n segments
FirstEntries(n) ==
    { SignalEntry(OtherText, casy) :
        casy \in { Missing, JNull, EmptyText }
                  \cup { CasyText(parts) : parts \in SegmentLists(n) } }

LaterEntries ==
    { SignalEntry(EmptyText, casy) :
        casy \in { EmptyText, CasyText(<< Segment(BadTime, BadTime) >>),
                   CasyText(<< Segment(HHMM(0, 0), HHMM(24, 0)) >>) } }

Feeds(n) ==
    { JObject(EmptyDict), JObject([ key \in { "signals" } |-> JNull ]),
      JObject([ key \in { "signals" } |-> JList(<< >>) ]) }
    \cup { JObject([ key \in { "signals" } |-> JList(<< e >>) ]) : e \in FirstEntries(n) }
    \cup { JObject([ key \in { "signals" } |-> JList(<< e, l >>) ]) :
              e \in FirstEntries(n), l \in LaterEntries }

SignalsInit ==
    /\ input \in [feed : Feeds(MaxWindows), now : { MinuteOf(0, 0), MinuteOf(SlotHours, 30) }]
    /\ output = Null
    /\ PureIdle

ParseSignalsCall ==
    /\ output = Null
    /\ output' = [k |-> "parsed", res |-> parse_hdo_signals(input.feed, input.now)]
    /\ UNCHANGED << input, orchVars, configVars, loopVars >>

SignalsNext == ParseSignalsCall

SignalsSpec == SignalsInit /\ [][SignalsNext]_vars

\* -------------------------------------------------------- TimestampSpec
\* parse_czech_timestamp of "D 24:00" for every date D of the years up to
\* 2026.
Years == (2026 - MaxYears)..2026

Dates ==
    { date \in [y : Years, m : 1..12, d : 1..31] : ValidDate(date.y, date.m, date.d) }

TimestampInit ==
    /\ input \in Dates
    /\ output = Null
    /\ PureIdle

TimestampCall ==
    /\ output = Null
    /\ output' = [k |-> "stamp",
                  at24 |-> parse_czech_timestamp(Ts(input.d, input.m, input.y, 24, 0))]
    /\ UNCHANGED << input, orchVars, configVars, loopVars >>

TimestampNext == TimestampCall

TimestampSpec == TimestampInit /\ [][TimestampNext]_vars

\* ------------------------------------------------------------- CellSpec
\* parse_czech_timestamp and parse_czech_decimal over the cells a row can
\* hold: None, text of another form, a decimal, and text of the form
\* DD.MM.YYYY HH:MM whose numbers name a date and time or do not.
CellDays == { 0, 1, 28, 29, 30, 31, 32 }
CellMonths == { 0, 1, 2, 4, 12, 13 }
CellYears == { 2023, 2024 }
CellHours == { 0, 23, 24, 25 }
CellMinutes == { 0, 59, 60 }

Cells ==
    { Null, Text, Dec(1) }
    \cup { Ts(d, m, y, hh, mi) : d \in CellDays, m \in CellMonths, y \in CellYears,
                                 hh \in CellHours, mi \in CellMinutes }

CellInit ==
    /\ input \in Cells
    /\ output = Null
    /\ PureIdle

CellCall ==
    /\ output = Null
    /\ output' = [k |-> "cell", timestamp |-> parse_czech_timestamp(input),
                  decimal |-> parse_czech_decimal(input)]
    /\ UNCHANGED << input, orchVars, configVars, loopVars >>

CellNext == CellCall

CellSpec == CellInit /\ [][CellNext]_vars

\* ---------------------------------------------------------- RecordsSpec
\* CezDataParser.parse_records and get_latest_reading over reports with
\* the columns of report -1003 and up to MaxRows rows, whose cells are
\* present or not, parsable or not.
RowTimestamps ==
    { Ts(14, 2, 2026, 0, 15), Ts(14, 2, 2026, 24, 0), Ts(31, 2, 2026, 24, 0),
      Ts(31, 2, 2026, 0, 15), Text, Missing }

RowCells == { Dec(1), Text, Missing }

\* the row with the given cells, a cell that is Missing left out
RowWith(ts, c1, c2) ==
    LET given == [ c \in { "c0", "c1", "c2", "c3" } |->
                     CASE c = "c0" -> ts [] c = "c1" -> c1 [] c = "c2" -> c2
                       [] c = "c3" -> Dec(3) ]
    IN [ c \in { x \in DOMAIN given : given[x] # Missing } |-> given[c] ]

Rows == { RowWith(ts, c1, c2) : ts \in RowTimestamps, c1 \in RowCells, c2 \in { Dec(2), Text } }

RECURSIVE RowLists(_)
RowLists(n) ==
    IF n = 0 THEN { << >> }
    ELSE RowLists(n - 1)
         \cup { Append(l, r) : l \in { x \in RowLists(n - 1) : Len(x) = n - 1 },
                               r \in Rows }

RecordsInit ==
    /\ input \in { Payload("true", VendorColumns(-1003, "784703"), values) :
                      values \in RowLists(MaxRows) }
    /\ output = Null
    /\ PureIdle

RecordsCall ==
    /\ output = Null
    /\ output' = [k |-> "records",
                  records |-> parse_records(CezDataParser(input)),
                  latest |-> get_latest_reading(CezDataParser(input))]
    /\ UNCHANGED << input, orchVars, configVars, loopVars >>

RecordsNext == RecordsCall

RecordsSpec == RecordsInit /\ [][RecordsNext]_vars

\* ------------------------------------------------------------- TaskSpec
\* The polling task of main: run_loop suspended at the awaits of a cycle
\* (ensure_session, the awaits of each report fetch, the sleep), the
\* signal handler of main, and a cancellation of the task by the event
\* loop's owner.  at, asm and step say where the task is suspended.
Task(at, asm, step, signalled, cancel_at, task, stopped) ==
    [k |-> "task", at |-> at, asm |-> asm, step |-> step, signalled |-> signalled,
     cancel_at |-> cancel_at, task |-> task, stopped |-> stopped]

\* no cancellation was requested
NotCancelled == [at |-> "none", asm |-> 0, step |-> 0]

TaskInit ==
    /\ input = Null
    /\ output = Task("ensure_session", 1, 1, FALSE, NotCancelled, "running", FALSE)
    /\ PureIdle

\* the await the task is suspended at completes and the task runs up to
\* its next await: the next await of the fetch, the first await of the
\* next report's fetch, the sleep after the last report (merge, publish
\* and logging do not suspend), or the ensure_session of the next cycle
TaskStep ==
    /\ output.task = "running"
    /\ output.cancel_at = NotCancelled
    /\ output' =
         CASE output.at = "ensure_session" ->
                [output EXCEPT !.at = "fetch", !.asm = 1, !.step = 1]
           [] output.at = "fetch" /\ output.step < FetchAwaits ->
                [output EXCEPT !.step = output.step + 1]
           [] output.at = "fetch" /\ output.step = FetchAwaits /\ output.asm < NumAssemblies ->
                [output EXCEPT !.asm = output.asm + 1, !.step = 1]
           [] output.at = "fetch" /\ output.step = FetchAwaits /\ output.asm = NumAssemblies ->
                [output EXCEPT !.at = "sleep", !.asm = 1, !.step = 1]
           [] output.at = "sleep" ->
                [output EXCEPT !.at = "ensure_session"]
    /\ UNCHANGED << input, orchVars, configVars, loopVars >>

\* main, lines 369-375: the handler of SIGTERM and SIGINT sets
\* shutdown_event, which nothing waits for
Signal ==
    /\ output.task = "running"
    /\ ~output.signalled
    /\ output' = [output EXCEPT !.signalled = TRUE]
    /\ UNCHANGED << input, orchVars, configVars, loopVars >>

\* task.cancel() is called on the polling task
Cancel ==
    /\ output.task = "running"
    /\ output.cancel_at = NotCancelled
    /\ output' = [output EXCEPT !.cancel_at = [at |-> output.at, asm |-> output.asm,
                                                step |-> output.step]]
    /\ UNCHANGED << input, orchVars, configVars, loopVars >>

\* CancelledError is raised at the await the task is suspended at.  It is
\* no Exception, so the handlers of _fetch_all_assemblies and run_once let
\* it pass; main catches it (line 379) and its finally block calls
\* mqtt_publisher.stop() (line 386)
DeliverCancel ==
    /\ output.task = "running"
    /\ output.cancel_at # NotCancelled
    /\ output' = [output EXCEPT !.task = "cancelled", !.stopped = TRUE]
    /\ UNCHANGED << input, orchVars, configVars, loopVars >>

TaskNext == TaskStep \/ Signal \/ Cancel \/ DeliverCancel

TaskSpec == TaskInit /\ [][TaskNext]_vars

\* the event loop runs every task that can run
TaskLiveSpec == TaskSpec /\ WF_vars(TaskStep) /\ WF_vars(DeliverCancel)

\* ------------------------------------------------------------ FetchSpec
\* The two fetch collaborators, PndFetcher.fetch and DipClient.fetch_hdo,
\* against a server whose answers are the input.
HttpStatuses == { 200, 302, 400, 401, 500, 503 }

\* a response body: no JSON, or a JSON object with or without the keys
\* "token" and "data" (Null stands for an absent key)
NotJsonBody == [k |-> "notjson"]
JsonBody(token, data) == [k |-> "json", token |-> token, data |-> data]
Response(status, html, body) ==
    [k |-> "response", status |-> status, html |-> html, body |-> body]
\* the request fails below HTTP (aiohttp.ClientError, timeout, Playwright error)
ConnectionError == [k |-> "neterr"]

Raised(err) == [k |-> "raise", err |-> err]
Data(data) == [k |-> "data", data |-> data]
DipRequest(path, token) == [path |-> path, x_request_token |-> token]
Fetched(res, requests) == [k |-> "fetched", res |-> res, requests |-> requests]

\* fetch_hdo without the check that the token response has a token
fetch_hdo_Blind(server) ==
    LET t == server.token
        s == server.signals
        first == << DipRequest("token", Null) >>
        token == IF t.k = "response" /\ t.body.k = "json" THEN t.body.token ELSE Null
        both == first \o << DipRequest("signals", token) >>
    IN  IF t.k = "neterr" THEN Fetched(Raised("DipFetchError"), first)
        ELSE IF t.status \in { 400, 503 } THEN Fetched(Raised("DipMaintenanceError"), first)
        ELSE IF t.status # 200 THEN Fetched(Raised("DipTokenError"), first)
        ELSE IF t.html THEN Fetched(Raised("DipMaintenanceError"), first)
        ELSE IF s.k = "neterr" THEN Fetched(Raised("DipFetchError"), both)
        ELSE IF s.status \in { 400, 503 } THEN Fetched(Raised("DipMaintenanceError"), both)
        ELSE IF s.status # 200 THEN Fetched(Raised("DipFetchError"), both)
        ELSE IF s.html THEN Fetched(Raised("DipMaintenanceError"), both)
        ELSE IF s.body.k = "notjson" THEN Fetched(Raised("DipFetchError"), both)
        ELSE IF s.body.data = Null THEN Fetched(Raised("DipFetchError"), both)
        ELSE Fetched(Data(s.body.data), both)

\* DipClient.fetch_hdo: the token request, then the signals request with
\* the token in x-request-token.  DipMaintenanceError is a DipFetchError
\* and passes the first handler; every other exception becomes DipFetchError
fetch_hdo(server) ==
    LET t == server.token
        s == server.signals
        first == << DipRequest("token", Null) >>
    IN  IF t.k = "neterr" THEN Fetched(Raised("DipFetchError"), first)
        ELSE IF t.status \in { 400, 503 } THEN Fetched(Raised("DipMaintenanceError"), first)
        ELSE IF t.status # 200 THEN Fetched(Raised("DipTokenError"), first)
        ELSE IF t.html THEN Fetched(Raised("DipMaintenanceError"), first)
        ELSE IF t.body.k = "notjson" THEN Fetched(Raised("DipFetchError"), first)
        ELSE IF t.body.token = Null THEN Fetched(Raised("DipTokenError"), first)
        ELSE LET both == first \o << DipRequest("signals", t.body.token) >>
             IN  IF s.k = "neterr" THEN Fetched(Raised("DipFetchError"), both)
                 ELSE IF s.status \in { 400, 503 } THEN
                     Fetched(Raised("DipMaintenanceError"), both)
                 ELSE IF s.status # 200 THEN Fetched(Raised("DipFetchError"), both)
                 ELSE IF s.html THEN Fetched(Raised("DipMaintenanceError"), both)
                 ELSE IF s.body.k = "notjson" THEN Fetched(Raised("DipFetchError"), both)
                 ELSE IF s.body.data = Null THEN Fetched(Raised("DipFetchError"), both)
                 ELSE Fetched(Data(s.body.data), both)

\* PndFetcher.fetch: a failure of the warm-up request is swallowed; the
\* form request decides.  A failing launch or request and a body that is
\* no JSON raise the library's own exception
fetch(server) ==
    LET r == server.response
        form == << "warmup", "form" >>
    IN  IF ~server.launch THEN Fetched(Raised("Error"), << >>)
        ELSE IF r.k = "neterr" THEN Fetched(Raised("Error"), form)
        ELSE IF r.status = 302 THEN Fetched(Raised("SessionExpiredError"), form)
        ELSE IF r.status # 200 THEN Fetched(Raised("PndFetchError"), form)
        ELSE IF r.body.k = "notjson" THEN Fetched(Raised("Error"), form)
        ELSE Fetched(Data(r.body.data), form)

TokenStrings == { JStr("t1"), JStr("t2") }
TokenResponses ==
    { ConnectionError }
    \cup { Response(st, html, body) :
             st \in HttpStatuses, html \in BOOLEAN,
             body \in { NotJsonBody } \cup { JsonBody(t, Null) : t \in { Null } \cup TokenStrings } }
DataResponses ==
    { ConnectionError }
    \cup { Response(st, html, body) :
             st \in HttpStatuses, html \in BOOLEAN,
             body \in { NotJsonBody, JsonBody(Null, Null), JsonBody(Null, JStr("signals")) } }

DipServers == { [k |-> "dip", token |-> t, signals |-> s] :
                  t \in TokenResponses, s \in DataResponses }
PndServers == { [k |-> "pnd", launch |-> l, warmup |-> w, response |-> r] :
                  l \in BOOLEAN, w \in BOOLEAN, r \in DataResponses }

FetchInit ==
    /\ input \in DipServers \cup PndServers
    /\ output = Null
    /\ PureIdle

PndFetchCall ==
    /\ output = Null
    /\ input.k = "pnd"
    /\ output' = fetch(input)
    /\ UNCHANGED << input, orchVars, configVars, loopVars >>

HdoFetchCall ==
    /\ output = Null
    /\ input.k = "dip"
    /\ output' = fetch_hdo(input)
    /\ UNCHANGED << input, orchVars, configVars, loopVars >>

FetchNext == PndFetchCall \/ HdoFetchCall

FetchSpec == FetchInit /\ [][FetchNext]_vars

\* ------------------------------------------------------------ RetrySpec
\* One call of Orchestrator._fetch_with_retry, step by step, against a
\* fetcher and a session store whose outcomes are chosen freely.  The input
\* is retry_base_delay_seconds; log is the sequence of outcomes so far and
\* sleeps the sequence of delays slept.
RetryBases == { 1, 2, 5 }

\* the same delay after every failed attempt
delay_Constant(base, attempt) == base

\* line 392: the delay after a failed attempt
delay(base, attempt) == base * 2 ^ (attempt - 1)

Retry(at, attempt, reauthed, cookies, log, slept, res) ==
    [k |-> "retry", at |-> at, attempt |-> attempt, reauthed |-> reauthed,
     cookies |-> cookies, log |-> log, sleeps |-> slept, res |-> res]

RetryInit ==
    /\ input \in { Num(b) : b \in RetryBases }
    /\ output = Null
    /\ PureIdle

\* the call: the first attempt of the first budget is about to be made
RetryCall ==
    /\ output = Null
    /\ output' = Retry("fetch", 1, FALSE, "old", << >>, << >>, Null)
    /\ UNCHANGED << input, orchVars, configVars, loopVars >>

\* lines 360-399: one pass of the loop body up to its next await.  A
\* payload is returned; SessionExpiredError ends the call when _reauthed
\* and goes to ensure_session otherwise; any other exception leads to the
\* sleep, or past the loop after the last attempt
RetryFetch ==
    /\ output # Null /\ output.res = Null /\ output.at = "fetch"
    /\ \E o \in { "ok", "expired", "error" } :
         LET logged == [output EXCEPT !.log = Append(output.log, o)]
         IN  output' =
               CASE o = "ok" -> [logged EXCEPT !.at = "done", !.res = Data(output.cookies)]
                 [] o = "expired" /\ output.reauthed ->
                      [logged EXCEPT !.at = "done", !.res = FetchNone]
                 [] o = "expired" /\ ~output.reauthed -> [logged EXCEPT !.at = "ensure"]
                 [] o = "error" /\ output.attempt < max_retries ->
                      [logged EXCEPT !.at = "sleep"]
                 [] o = "error" /\ output.attempt >= max_retries ->
                      [logged EXCEPT !.at = "done", !.res = FetchNone]
    /\ UNCHANGED << input, orchVars, configVars, loopVars >>

\* lines 392-401: the sleep after a failed attempt, then the next attempt
RetrySleep ==
    /\ output # Null /\ output.res = Null /\ output.at = "sleep"
    /\ output' = [output EXCEPT !.at = "fetch", !.attempt = output.attempt + 1,
                                 !.log = Append(output.log, "sleep"),
                                 !.sleeps = Append(output.sleeps,
                                                   delay(input.n, output.attempt))]
    /\ UNCHANGED << input, orchVars, configVars, loopVars >>

\* lines 377-387: ensure_session either raises, which ends the call, or
\* returns the session with which the method calls itself, _reauthed=True
RetryEnsure ==
    /\ output # Null /\ output.res = Null /\ output.at = "ensure"
    /\ \E o \in { "ensure_ok", "ensure_raise" } :
         LET logged == [output EXCEPT !.log = Append(output.log, o)]
         IN  output' =
               IF o = "ensure_raise"
               THEN [logged EXCEPT !.at = "done", !.res = FetchNone]
               ELSE [logged EXCEPT !.at = "fetch", !.attempt = 1, !.reauthed = TRUE,
                                   !.cookies = "new"]
    /\ UNCHANGED << input, orchVars, configVars, loopVars >>

RetryNext == RetryCall \/ RetryFetch \/ RetrySleep \/ RetryEnsure

RetrySpec == RetryInit /\ [][RetryNext]_vars

\* the event loop resumes the coroutine whenever the awaited fetcher call,
\* ensure_session call or sleep has returned
RetryLiveSpec == RetrySpec /\ WF_vars(RetryNext)

\* ---------------------------------------------------------- BrowserSpec
\* The browsers of PlaywrightAuthClient: browsers[i] is the state of the
\* i-th browser launched by _login_via_playwright, stored the index of the
\* browser that SessionStore holds as live (0 for None), at the position
\* of ensure_session.
Browsers(at, browsers, stored) ==
    [k |-> "browsers", at |-> at, browsers |-> browsers, stored |-> stored]

\* close_live_context, session_manager.py lines 84-90
close_live_context(b) ==
    [b EXCEPT !.browsers = [ i \in DOMAIN b.browsers |->
                               IF i = b.stored THEN "closed" ELSE b.browsers[i] ],
              !.stored = 0]

BrowserInit ==
    /\ input = Null
    /\ output = Browsers("idle", << >>, 0)
    /\ PureIdle

\* ensure_session, lines 64-78, when the stored session cannot be reused:
\* the live context and browser are closed, then the login starts
LoginBegin ==
    /\ output.at = "idle"
    /\ Len(output.browsers) < MaxLaunches
    /\ output' = [close_live_context(output) EXCEPT !.at = "launch"]
    /\ UNCHANGED << input, orchVars, configVars, loopVars >>

\* _login_via_playwright, lines 95-98: Playwright starts and launches a
\* browser, or raises
LoginLaunch ==
    /\ output.at = "launch"
    /\ \E ok \in BOOLEAN :
         output' = IF ok
                   THEN [output EXCEPT !.at = "page",
                                       !.browsers = Append(output.browsers, "open")]
                   ELSE [output EXCEPT !.at = "idle"]
    /\ UNCHANGED << input, orchVars, configVars, loopVars >>

\* _login_via_playwright, lines 99-137: context, page, form and the wait
\* for success.  When all succeed the browser is handed to the store
\* (line 129); when one raises, the exception leaves the method and
\* ensure_session, and nothing closes the browser
LoginPage ==
    /\ output.at = "page"
    /\ \E ok \in BOOLEAN :
         output' = IF ok
                   THEN [output EXCEPT !.at = "idle", !.stored = Len(output.browsers)]
                   ELSE [output EXCEPT !.at = "idle"]
    /\ UNCHANGED << input, orchVars, configVars, loopVars >>

\* PlaywrightAuthClient.close, lines 83-87
AuthClose ==
    /\ output.at = "idle"
    /\ output.stored # 0
    /\ output' = close_live_context(output)
    /\ UNCHANGED << input, orchVars, configVars, loopVars >>

\* the stored browser dies on its own; the store keeps the reference
BrowserDies ==
    /\ output.stored # 0
    /\ output.browsers[output.stored] = "open"
    /\ output' = [output EXCEPT !.browsers[output.stored] = "closed"]
    /\ UNCHANGED << input, orchVars, configVars, loopVars >>

BrowserNext == LoginBegin \/ LoginLaunch \/ LoginPage \/ AuthClose \/ BrowserDies

BrowserSpec == BrowserInit /\ [][BrowserNext]_vars

\* ================================================================ properties
\* number of fetcher calls of this cycle for report id of the m-th meter
CountFetches(m, id) ==
    Cardinality({ j \in 1..Len(fetchLog) :
                    fetchLog[j].meter = m /\ fetchLog[j].id = id })

\* the first ensure_session of the cycle failed, and not with
\* ServiceMaintenanceError
AuthFailed ==
    Len(authLog) >= 1 /\ authLog[1].res \in { "error", "credentials" }

\* C1: when the ensure_session at the start of a cycle fails with an error
\* other than ServiceMaintenanceError, run_once returns (the loop is
\* sleeping) without a report fetch, a tariff fetch, a publish_state or a
\* publish_hdo_state call and without a second ensure_session, in every cycle.
C1_AuthFailureSkipsCycle ==
    AuthFailed => /\ pc = "sleep"
                  /\ Len(authLog) = 1
                  /\ fetchLog = << >>
                  /\ pubLog = << >>
                  /\ hdoLog = << >>

\* a second cycle skipped on an authentication error, after a first cycle
\* that published data (its state dict is still in memory)
C1_Witness ==
    /\ AuthFailed
    /\ cycle = 2
    /\ pc = "sleep"
    /\ ~StateIsEmpty(state)

\* C2: every sensor value passed to publish_state was parsed from a report
\* fetched in the same cycle: it carries the number of the current cycle, and
\* the cycle has fetched reports.
C2_PublishedValuesAreFresh ==
    \A i \in 1..Len(pubLog) :
      \A m \in DOMAIN pubLog[i].state :
        \A sk \in DOMAIN pubLog[i].state[m] :
          /\ pubLog[i].state[m][sk] = cycle
          /\ fetchLog # << >>

\* the second cycle publishes a state in which a report of this cycle is
\* missing while others arrived
C2_Witness ==
    /\ cycle = 2
    /\ Len(pubLog) = 1
    /\ \E m \in DOMAIN pubLog[1].state :
         /\ DOMAIN pubLog[1].state[m] # {}
         /\ DOMAIN pubLog[1].state[m] # SensorKeySet

\* C3: every ensure_session call made while the persisted session state
\* exists and is not expired returns a reused session without invoking the
\* login runner.
C3_ValidStateIsReused ==
    \A i \in 1..Len(authLog) :
      authLog[i].valid => ~authLog[i].login /\ authLog[i].res = "reused"

\* C4: every state passed to publish_state is non-empty and each of its
\* meter entries holds at least one sensor value.
C4_PublishedEntriesHaveValues ==
    \A i \in 1..Len(pubLog) :
      /\ ~StateIsEmpty(pubLog[i].state)
      /\ \A m \in DOMAIN pubLog[i].state : DOMAIN pubLog[i].state[m] # {}

\* the meter id a reading is merged under
ReadingKey(reading, meter_id) ==
    IF reading.electrometer_id # Null THEN reading.electrometer_id.s ELSE meter_id

\* the sensor keys a reading supplies
SuppliedKeys(reading) ==
    IF reading = Null \/ reading = Raise THEN {}
    ELSE { sk \in SensorKeySet : reading.vals[ParserKeyOf[sk]] # Null }

\* C5: when the reports of a meter have been fetched, all six were attempted
\* whatever raised, every report that returned data is in the result map,
\* and the state merged from it holds every sensor key such a report
\* supplies (under the meter id the report names) and no new key that none
\* of them supplies.
C5_PartialFailureKeepsOthers ==
    pc = "merge" =>
      LET mid == electrometers[meterIdx].electrometer_id
          result == MergeFrom(results, 1, mid, state)
          merged == result.state
          readings == { LatestReadingOf(results[n]) : n \in { x \in got : results[x] # Null } }
          supplied == UNION { SuppliedKeys(r) : r \in readings }
      IN /\ \A i \in 1..NumAssemblies :
              CountFetches(meterIdx, ASSEMBLY_CONFIGS[i].id) >= 1
         /\ \A n \in got : results[n] # Null
         /\ result # Raise =>
              /\ \A r \in readings :
                   SuppliedKeys(r) # {} =>
                     /\ ReadingKey(r, mid) \in DOMAIN merged
                     /\ SuppliedKeys(r) \subseteq DOMAIN merged[ReadingKey(r, mid)]
              /\ \A m \in DOMAIN merged :
                   \A sk \in DOMAIN merged[m] :
                     \/ sk \in supplied
                     \/ /\ m \in DOMAIN state
                        /\ sk \in DOMAIN state[m]
                        /\ state[m][sk] = merged[m][sk]

\* the last report of a meter raised and earlier reports returned data
C5_Witness ==
    /\ pc = "merge"
    /\ lastFetch.k = "error"
    /\ got # {}
    /\ Cardinality(got) < NumAssemblies - 1

\* C6: in a cycle with a tariff fetcher and a session whose browser context
\* is alive, once run_once is over the tariff feed of every meter with an
\* ean was fetched, whatever happened in the PND stage; and a cycle that
\* reached the tariff stage with merged data had called publish_state.
C6_TariffIndependentOfPnd ==
    /\ ( /\ pc \in { "sleep", "crashed" }
         /\ hdo_fetcher
         /\ Len(authLog) >= 1
         /\ \A i \in 1..Len(authLog) : authLog[i].res \in { "reused", "fresh" }
         /\ live = "open" )
       => \A m \in 1..Len(electrometers) :
            electrometers[m].ean # "" =>
              \E j \in 1..Len(hdoLog) : hdoLog[j].ean = electrometers[m].ean
    /\ (hdoLog # << >> /\ ~StateIsEmpty(state)) => pubLog # << >>

\* C7: run_once never raises, so that run_loop is never ended by an error.
C7_RunOnceNeverRaises == pc # "crashed"

\* C8: when a fetcher call raised a generic error and the fetch loop has gone
\* on to the next report, the failing report has been attempted max_retries
\* times.
C8_FailingReportAttemptedNTimes ==
    (pc \in { "fetch", "merge" } /\ lastFetch # Null /\ lastFetch.k = "error") =>
      LET e == fetchLog[Len(fetchLog)]
      IN CountFetches(e.meter, e.id) = max_retries

\* C9: when the last report fetch of a meter raised SessionExpiredError, the
\* cycle has made one more ensure_session call by the end of the fetch loop.
C9_SessionExpiryReauthenticates ==
    (pc = "merge" /\ lastFetch.k = "expired") => Len(authLog) = 2

\* C10: per meter and cycle a report without fallback_yesterday is fetched at
\* most once and exactly once when the meter is done; daily_registers is
\* fetched a second time, for yesterday, exactly when its first fetch
\* returned a payload saying "no data", never a third time, and it is left
\* out of the results when the yesterday fetch has no data either.
C10_FetchCounts ==
    /\ \A m \in 1..Len(electrometers) : \A i \in 1..NumAssemblies :
         /\ CountFetches(m, ASSEMBLY_CONFIGS[i].id)
              <= (IF ASSEMBLY_CONFIGS[i].fallback_yesterday THEN 2 ELSE 1)
         /\ (m < meterIdx \/ (m = meterIdx /\ pc = "merge")
               \/ pc \in { "publish", "hdo_reauth", "hdo" })
              => CountFetches(m, ASSEMBLY_CONFIGS[i].id) >= 1
    /\ \A j \in 1..Len(fetchLog) :
         fetchLog[j].window = "yesterday" =>
           /\ fetchLog[j].id = -1027
           /\ j > 1
           /\ fetchLog[j - 1].id = -1027
           /\ fetchLog[j - 1].meter = fetchLog[j].meter
           /\ fetchLog[j - 1].window = "today"
    /\ (pc = "fetch" /\ fallback) =>
         /\ lastFetch.k = "nodata"
         /\ CountFetches(meterIdx, -1027) = 1
    /\ pc = "merge" =>
         /\ CountFetches(meterIdx, -1027) = 1 => lastFetch.k # "nodata"
         /\ (CountFetches(meterIdx, -1027) = 2 /\ lastFetch.k = "nodata")
              => results["daily_registers"] = Null

\* daily_registers had no data today and none yesterday, the other five
\* reports were fetched once and returned data
C10_Witness ==
    /\ pc = "merge"
    /\ CountFetches(meterIdx, -1027) = 2
    /\ lastFetch.k = "nodata"
    /\ Cardinality(got) = NumAssemblies - 1
    /\ Len(fetchLog) = meterIdx * NumAssemblies + 1

\* the report-type ids in the order the descriptors are specified in
DescriptorOrder == << -1003, -1012, -1011, -1021, -1022, -1027 >>

PositionOf(id) == CHOOSE i \in 1..Len(DescriptorOrder) : DescriptorOrder[i] = id

\* C11: within a cycle the fetcher calls start with the first report of the
\* first configured meter; each call is followed by the next report of the
\* same meter in descriptor order, by the yesterday fetch of -1027 after
\* its today fetch, or, after -1027, by the first report of the next
\* configured meter.
C11_FetchOrder ==
    /\ fetchLog # << >> =>
         /\ fetchLog[1].meter = 1
         /\ fetchLog[1].id = DescriptorOrder[1]
         /\ fetchLog[1].window = "today"
    /\ \A j \in 1..(Len(fetchLog) - 1) :
         LET a == fetchLog[j]
             b == fetchLog[j + 1]
         IN \/ /\ b.meter = a.meter
               /\ PositionOf(b.id) = PositionOf(a.id) + 1
               /\ b.window = "today"
            \/ /\ b.meter = a.meter
               /\ a.id = -1027 /\ b.id = -1027
               /\ a.window = "today" /\ b.window = "yesterday"
            \/ /\ b.meter = a.meter + 1
               /\ a.id = -1027
               /\ b.id = DescriptorOrder[1]
               /\ b.window = "today"

\* the reports of two meters were fetched, with a yesterday fetch for the first
C11_Witness ==
    /\ Len(fetchLog) = 2 * NumAssemblies + 1
    /\ fetchLog[Len(fetchLog)].meter = 2
    /\ fetchLog[NumAssemblies + 1].window = "yesterday"

\* the run_once activations with a collaborator call in flight, and those
\* that have not returned
InFlight == { c \in 1..Len(acts) : acts[c].st = "calling" }
Running == { c \in 1..Len(acts) : acts[c].st \in { "idle", "calling" } }

\* C12: at most one collaborator call is in flight; at most one run_once is
\* running, and it is the one started last; every run_once after the first
\* was started after a completed sleep of its own, which began after the
\* run_once before it had returned.
C12_NoOverlap ==
    /\ Cardinality(InFlight) <= 1
    /\ Cardinality(Running) <= 1
    /\ \A c \in 1..(Len(acts) - 1) : acts[c].st = "returned"
    /\ Len(acts) <= sleeps + 1
    /\ loop = "sleeping" => acts[Len(acts)].st = "returned"

\* the second run_once has its tariff fetch in flight
C12_Witness ==
    /\ Len(acts) = 2
    /\ acts[2].st = "calling"
    /\ CallsOfRun[acts[2].at] = "fetch_hdo"

\* C13: an ensure_session call of run_once that fails with
\* ServiceMaintenanceError is logged at warning level; run_once returns (the
\* loop is sleeping); when the call was the one at the start of the cycle
\* nothing was fetched or published, when it was the one before the tariff
\* step no tariff was fetched or published.
C13_MaintenanceIsWarning ==
    \A j \in 1..Len(authLog) :
        authLog[j].res = "maintenance" =>
            /\ authLog[j].level = "warning"
            /\ pc = "sleep"
            /\ hdoLog = << >>
            /\ authLog[j].at = "run_once" => fetchLog = << >> /\ pubLog = << >>

\* position of the meter with electrometer_id id in the configuration
MeterIndex(id) ==
    CHOOSE m \in 1..Len(electrometers) : electrometers[m].electrometer_id = id

\* C14: when the tariff step of a meter failed (in the fetch, the evaluation
\* or the publish) and run_once has returned, the tariff fetcher was called,
\* after that failure, for every later configured meter that has an ean.
C14_TariffFailureKeepsLaterMeters ==
    \A j \in 1..Len(hdoLog) :
        hdoLog[j].out # "ok" /\ pc = "sleep" =>
            \A m \in (MeterIndex(hdoLog[j].meter_id) + 1)..Len(electrometers) :
                electrometers[m].ean # "" =>
                    \E k \in (j + 1)..Len(hdoLog) :
                        /\ hdoLog[k].meter_id = electrometers[m].electrometer_id
                        /\ hdoLog[k].ean = electrometers[m].ean

\* the tariff step of the first meter failed in the fetch and the tariff of
\* the second meter was fetched, evaluated and published
C14_Witness ==
    /\ pc = "sleep"
    /\ Len(hdoLog) = 2
    /\ hdoLog[1].out = "token"
    /\ hdoLog[2].out = "ok"

\* the tariff fetcher calls of this cycle made for the m-th meter
HdoCallsFor(m) ==
    { j \in 1..Len(hdoLog) : hdoLog[j].meter_id = electrometers[m].electrometer_id }

\* publish_hdo_state was reached in the tariff step that ended with out
HdoPublishCalled(out) == out \in { "ok", "publish_error" }

\* C15: every tariff fetcher call is made for a configured meter with a
\* non-empty ean and with that meter's ean, at most once per meter;
\* publish_hdo_state is reached only in a step whose fetch and evaluation
\* succeeded; and in a cycle with a tariff fetcher and a session whose
\* browser context is alive, once run_once is over the tariff fetcher was
\* called exactly once for every meter with an ean.
C15_TariffFetchedOncePerEan ==
    /\ \A j \in 1..Len(hdoLog) :
         /\ hdoLog[j].ean # ""
         /\ hdoLog[j].ean = electrometers[MeterIndex(hdoLog[j].meter_id)].ean
         /\ HdoPublishCalled(hdoLog[j].out) =>
              hdoLog[j].out \notin { "maintenance", "token", "fetch_error", "parse_error" }
    /\ \A m \in 1..Len(electrometers) : Cardinality(HdoCallsFor(m)) <= 1
    /\ ( /\ pc \in { "sleep", "crashed" }
         /\ hdo_fetcher
         /\ Len(authLog) >= 1
         /\ \A i \in 1..Len(authLog) : authLog[i].res \in { "reused", "fresh" }
         /\ live = "open" )
       => \A m \in 1..Len(electrometers) :
            electrometers[m].ean # "" => Cardinality(HdoCallsFor(m)) = 1

\* C16: before the publisher is started, and between its start and the
\* publication of discovery, nothing was published and no run_once has
\* begun; from then on, in every cycle, discovery has been published
\* exactly once.
C16_DiscoveryOnce ==
    /\ pc \in { "boot", "started" } =>
         /\ discovery = 0
         /\ cycle = 1
         /\ authLog = << >> /\ fetchLog = << >> /\ pubLog = << >> /\ hdoLog = << >>
    /\ pc \notin { "boot", "started" } => discovery = 1

\* a later cycle is running
C16_Witness ==
    /\ cycle = MaxCycles
    /\ pc = "fetch"
    /\ discovery = 1

\* how often the call name occurs in the calls of an ensure_session
CountCalls(calls, name) ==
    Cardinality({ i \in 1..Len(calls) : calls[i] = name })

\* C17: every ensure_session call of the cycle ran the login at most once;
\* it did not run it when the credentials were missing; and when the
\* credentials were missing or the login failed, that error is what the
\* call ended with.
C17_LoginAtMostOnce ==
    \A j \in 1..Len(authLog) :
        LET a == authLog[j]
            logins == CountCalls(a.calls, "login")
        IN /\ logins <= 1
           /\ a.login <=> logins = 1
           /\ a.res = "credentials" => logins = 0
           /\ a.res \in { "error", "maintenance" } => logins = 1
           /\ a.res = "fresh" => logins = 1
           /\ a.res = "reused" => logins = 0

\* the ensure_session call at the start of the second cycle ran the login,
\* which failed
C17_Witness ==
    /\ cycle = 2
    /\ Len(authLog) = 1
    /\ authLog[1].res = "error"
    /\ CountCalls(authLog[1].calls, "login") = 1

\* C18: every ensure_session call of the cycle loaded the session file
\* once, as its first step; it saved once when its login succeeded and not
\* at all otherwise; when it returned the cached session or raised, the
\* file is as it was before the call; and after a call whose login
\* succeeded the file holds what save makes of the cookies of the session
\* returned.
C18_LoadOnceSaveOnLogin ==
    /\ \A j \in 1..Len(authLog) :
         LET a == authLog[j]
         IN /\ a.calls[1] = "load"
            /\ CountCalls(a.calls, "load") = 1
            /\ CountCalls(a.calls, "save") = (IF a.res = "fresh" THEN 1 ELSE 0)
            /\ a.res # "fresh" => a.kept
    /\ (authLog # << >> /\ authLog[Len(authLog)].res = "fresh") =>
         /\ session # Null
         /\ file = Written(session.cookies, now)
         /\ load(file).cookies = session.cookies

\* the cached session was returned at the start of the cycle, and the call
\* before the tariff step logged in again
C18_Witness ==
    /\ Len(authLog) = 2
    /\ authLog[1].res = "reused"
    /\ authLog[2].res = "fresh"

\* C19: every fetcher call of the cycle was given the same cookies; while
\* the reports are fetched, merged and published these are the cookies of
\* the session that the ensure_session at the start of the cycle returned,
\* which are also the cookies in the session file.
C19_SameCookiesForEveryFetch ==
    /\ \A j \in 1..Len(fetchLog) : fetchLog[j].cookies = fetchLog[1].cookies
    /\ (pc \in { "fetch", "merge", "publish" } /\ fetchLog # << >>) =>
         /\ Len(authLog) = 1
         /\ authLog[1].res \in { "reused", "fresh" }
         /\ fetchLog[1].cookies = session.cookies
         /\ fetchLog[1].cookies = load(file).cookies

\* the reports of two meters were fetched in the second cycle, the last of
\* the first meter a second time for yesterday
C19_Witness ==
    /\ cycle = 2
    /\ Len(fetchLog) = 2 * NumAssemblies + 1
    /\ fetchLog[NumAssemblies + 1].window = "yesterday"
    /\ fetchLog[Len(fetchLog)].meter = 2
    /\ authLog[1].res = "reused"

\* the expiries of the cookies that satisfy the test ok
ExpiriesWhere(cookies, ok(_)) ==
    { cookies[i].expires.n :
        i \in { j \in 1..Len(cookies) :
                  cookies[j].expires # Null /\ ok(cookies[j].expires.n) } }

Earliest(S) == CHOOSE x \in S : \A y \in S : x <= y

IsPositive(n) == n > 0
IsNonZero(n) == n # 0

\* the state save is expected to return when the expiries that count are
\* those satisfying ok
ExpectedState(ok(_)) ==
    [k |-> "state", cookies |-> input.cookies, created_at |-> input.t,
     expires_at |-> IF ExpiriesWhere(input.cookies, ok) # {}
                    THEN Time(Earliest(ExpiriesWhere(input.cookies, ok)))
                    ELSE Time(input.t + DEFAULT_SESSION_TTL)]

\* C20: the state written by save has the cookies given, created_at equal
\* to the save time, and expires_at equal to the earliest expiry greater
\* than zero among the cookies, or to created_at + DEFAULT_SESSION_TTL when
\* no cookie has an expiry greater than zero.
C20_SaveExpiry == output # Null => output = ExpectedState(IsPositive)

\* C20 as stated: expires_at is the earliest non-zero expiry among the
\* cookies, or created_at + DEFAULT_SESSION_TTL when no cookie has a
\* non-zero expiry.
C20_AsStated == output # Null => output = ExpectedState(IsNonZero)

\* save was given a cookie with a negative expiry and one with a positive
\* expiry
C20_Witness ==
    /\ output # Null
    /\ ExpiriesWhere(input.cookies, IsPositive) # {}
    /\ ExpiriesWhere(input.cookies, IsNonZero) # ExpiriesWhere(input.cookies, IsPositive)

\* C21: is_expired(state, now) is true exactly when now >= expires_at if
\* the state has an expires_at, and exactly when
\* now >= created_at + DEFAULT_SESSION_TTL if it has none.
C21_IsExpired ==
    output # Null =>
        output.v = (IF input.state.expires_at # Null
                    THEN input.now >= input.state.expires_at.t
                    ELSE input.now >= input.state.created_at + DEFAULT_SESSION_TTL)

\* is_expired was asked at the very instant of expires_at and said yes
C21_Witness ==
    /\ output = Bool(TRUE)
    /\ input.state.expires_at = Time(input.now)

\* C22: load never raises: for every content of the session file it returns
\* None or a SessionState, and ensure_session takes a file that is not a
\* session for no session and goes on to the login.
C22_LoadNeverRaises ==
    (output # Null /\ output.k = "loaded") =>
        /\ output.loaded.k \in { "null", "state" }
        /\ output.loaded = Null => output.session.login

C24_SaveIsAtomic ==
    (output # Null /\ output.k = "saving" /\ output.loaded # Pending) =>
        /\ output.file \in { input.old, Written(input.cookies, input.t) }
        /\ output.loaded \in { load(input.old), save(input.cookies, input.t) }

\* the (meter, sensor key) entries of the state dict that the merge writes
\* from one report, run_once lines 168-176
KeysWrittenFrom(payload, meter_id) ==
    IF payload = Null THEN {}
    ELSE LET reading == LatestReadingOf(payload)
         IN IF reading = Raise \/ reading = Null THEN {}
            ELSE { << IF reading.electrometer_id # Null
                      THEN reading.electrometer_id.s ELSE meter_id, sk >> :
                     sk \in { x \in SensorKeySet : reading.vals[ParserKeyOf[x]] # Null } }

\* C25: during the merge of one cycle no sensor key of a meter is written
\* more than once: the reports of a meter supply disjoint sets of sensor
\* keys, so no value written from one report is overwritten from a later
\* one.
C25_SensorKeyWrittenOnce ==
    pc = "merge" =>
        \A n1, n2 \in AssemblyNames :
            n1 # n2 =>
                KeysWrittenFrom(results[n1], electrometers[meterIdx].electrometer_id)
                \cap KeysWrittenFrom(results[n2], electrometers[meterIdx].electrometer_id)
                = {}

\* the schedule 00:00-08:00; 09:00-12:00; 13:00-15:00; 16:00-19:00;
\* 20:00-24:00
CanonicalSchedule ==
    << << HHMM(0, 0), HHMM(8, 0) >>, << HHMM(9, 0), HHMM(12, 0) >>,
       << HHMM(13, 0), HHMM(15, 0) >>, << HHMM(16, 0), HHMM(19, 0) >>,
       << HHMM(20, 0), HHMM(24, 0) >> >>

\* the window ranges[i] holds the time t: start <= t < end, or its end is
\* the midnight sentinel and start <= t
WindowHolds(ranges, i, t) ==
    LET start == _time_from_str(ranges[i][1]).min
        end == _time_from_str(ranges[i][2]).min
    IN \/ start <= t /\ t < end
       \/ end = MinuteOf(0, 0) /\ start <= t

\* C26: is_low_tariff is true if and only if some window satisfies
\* start <= t < end, or ends at the midnight sentinel and has start <= t,
\* whatever its start, a window from 00:00 to 24:00 included; for the
\* canonical schedule it is true at 07:59, false at 08:30, true at 23:59.
C26_IsLowTariff ==
    /\ _is_in_low_tariff(MinuteOf(7, 59), CanonicalSchedule) = Bool(TRUE)
    /\ _is_in_low_tariff(MinuteOf(8, 30), CanonicalSchedule) = Bool(FALSE)
    /\ _is_in_low_tariff(MinuteOf(23, 59), CanonicalSchedule) = Bool(TRUE)
    /\ (output # Null /\ output.k = "tariff") =>
           output.is_low = Bool(\E i \in 1..Len(input.ranges) :
                                   WindowHolds(input.ranges, i, input.now))

\* the boundaries of a window list: every start, and every end that is not
\* the midnight sentinel
BoundarySet(ranges) ==
    { _time_from_str(ranges[i][1]).min : i \in 1..Len(ranges) }
    \cup { _time_from_str(ranges[i][2]).min :
             i \in { j \in 1..Len(ranges) :
                       _time_from_str(ranges[j][2]).min # MinuteOf(0, 0) } }

EarliestOf(S) == CHOOSE x \in S : \A y \in S : x <= y

\* minutes from today's midnight to a datetime
MinutesOf(dt) == dt.day * MinuteOf(24, 0) + dt.min

\* C27: next_switch is the earliest boundary strictly after now's time of
\* day, on today's date; if none remains today it is the earliest boundary
\* on tomorrow's date, or tomorrow 00:00 if there is no boundary; it is
\* always strictly later than now.
C27_NextSwitch ==
    (output # Null /\ output.k = "tariff") =>
        LET boundaries == BoundarySet(input.ranges)
            remaining == { b \in boundaries : b > input.now }
        IN /\ output.next_switch =
                 IF remaining # {} THEN DateTime(0, EarliestOf(remaining))
                 ELSE IF boundaries # {} THEN DateTime(1, EarliestOf(boundaries))
                 ELSE DateTime(1, MinuteOf(0, 0))
           /\ MinutesOf(output.next_switch) > input.now

\* two windows listed latest first, called before the start of the later
\* one: the switch returned is today, at a boundary of the second window
C27_Witness ==
    /\ output # Null
    /\ output.k = "tariff"
    /\ Len(input.ranges) = 2
    /\ _time_from_str(input.ranges[2][1]).min < _time_from_str(input.ranges[1][1]).min
    /\ output.next_switch.day = 0
    /\ output.next_switch.min < _time_from_str(input.ranges[1][1]).min
    /\ output.next_switch.min > input.now

\* C28: next_switch is when the next tariff transition occurs: for a
\* schedule under which the tariff changes at all, is_low_tariff has the
\* same value at every time from now up to but excluding next_switch, and
\* a different value at next_switch (the times looked at are the cuts of
\* the day and the half hours after them, today and tomorrow).
C28_NextSwitchIsTransition ==
    (output # Null /\ output.k = "tariff") =>
        LET low(t) == _is_in_low_tariff(t, input.ranges)
            next_switch == output.next_switch
        IN (\E t \in NowTimes : low(t) # output.is_low) =>
               /\ \A day \in 0..1, t \in NowTimes :
                      (/\ MinutesOf(DateTime(day, t)) >= input.now
                       /\ MinutesOf(DateTime(day, t)) < MinutesOf(next_switch))
                      => low(t) = output.is_low
               /\ low(next_switch.min) # output.is_low

\* C29: parse_hdo_signals fails with the no-signals error exactly when the
\* signal list is missing or empty, with the no-schedule error exactly
\* when the first entry has no schedule text, and otherwise returns a
\* tariff state computed from the first entry only, without raising.
C29_ParseSignalsErrors ==
    (output # Null /\ output.k = "parsed") =>
        LET signals == Get(input.feed, "signals")
            noSignals == signals \in { JNull, JList(<< >>) }
            noSchedule == /\ ~noSignals
                          /\ GetOr(signals.items[1], "casy", EmptyText) \in { JNull, EmptyText }
        IN /\ output.res = NoSignalsError <=> noSignals
           /\ output.res = NoScheduleError <=> noSchedule
           /\ (~noSignals /\ ~noSchedule) =>
                  /\ output.res.k = "hdo"
                  /\ output.res =
                       parse_hdo_signals(
                           JObject([ key \in { "signals" } |-> JList(<< signals.items[1] >>) ]),
                           input.now)

\* the number of the day (y, m, d) counted from the first day of the first
\* year looked at
RECURSIVE DaysBeforeYear(_)
DaysBeforeYear(y) ==
    IF y <= 2026 - MaxYears THEN 0
    ELSE DaysBeforeYear(y - 1) + (IF IsLeap(y - 1) THEN 366 ELSE 365)

RECURSIVE DaysBeforeMonth(_, _)
DaysBeforeMonth(y, m) ==
    IF m = 1 THEN 0 ELSE DaysBeforeMonth(y, m - 1) + DaysInMonth(y, m - 1)

DayNumber(y, m, d) == DaysBeforeYear(y) + DaysBeforeMonth(y, m) + d

\* the dates that can follow a day of month m of year y
DatesAround(y, m) ==
    { date \in [y : { y, y + 1 }, m : { m, (m % 12) + 1 }, d : 1..31] :
        ValidDate(date.y, date.m, date.d) }

\* C30: for every calendar date D, parse_czech_timestamp of "D 24:00"
\* equals parse_czech_timestamp of "(D+1) 00:00", D+1 being the following
\* calendar day, across month ends and year ends too.
C30_Midnight24 ==
    (output # Null /\ output.k = "stamp") =>
        /\ output.at24.k = "datetime"
        /\ \E next \in DatesAround(input.y, input.m) :
               DayNumber(next.y, next.m, next.d) = DayNumber(input.y, input.m, input.d) + 1
        /\ \A next \in DatesAround(input.y, input.m) :
               DayNumber(next.y, next.m, next.d) = DayNumber(input.y, input.m, input.d) + 1
               => output.at24 = parse_czech_timestamp(Ts(next.d, next.m, next.y, 0, 0))

\* "31.12.Y 24:00" has been parsed to the first of January of the next year
C30_Witness ==
    /\ output # Null
    /\ output.k = "stamp"
    /\ input.m = 12
    /\ input.d = 31
    /\ output.at24 = parse_czech_timestamp(Ts(1, 1, input.y + 1, 0, 0))
    /\ output.at24.k = "datetime"
    /\ output.at24.y = input.y + 1

\* the cell is text DD.MM.YYYY HH:MM that names a date of the calendar and
\* a time of the day, 24:00 included
NamesInstant(cell) ==
    /\ cell.k = "ts"
    /\ ValidDate(cell.y, cell.m, cell.d)
    /\ \/ cell.hh \in 0..23 /\ cell.mi \in 0..59
       \/ cell.hh = 24 /\ cell.mi = 0

\* C31: parse_czech_decimal and parse_czech_timestamp never raise; for a
\* cell that is None or is not a value of the expected format, a string
\* DD.MM.YYYY HH:MM naming no calendar date or an hour or minute out of
\* range included, with or without hour 24, the result is None.
C31_ParsersNeverRaise ==
    (output # Null /\ output.k = "cell") =>
        /\ output.timestamp # Raise
        /\ output.decimal # Raise
        /\ ~NamesInstant(input) => output.timestamp = Null
        /\ input.k # "dec" => output.decimal = Null

\* the cell of a row under a column, None when the row has none
CellOf(row, c) == IF c \in DOMAIN row THEN row[c] ELSE Null

\* the timestamp cell of the row parses
TimestampParses(row) ==
    LET ts == parse_czech_timestamp(CellOf(row, "c0"))
    IN ts # Null /\ ts # Raise

\* the reading a row of report -1003 stands for: each metric is the number
\* in its own cell, None when the cell is missing or no number
ReadingOfRow(row) ==
    [timestamp |-> parse_czech_timestamp(CellOf(row, "c0")),
     vals |-> [ x \in ParserKeySet |->
                  CASE x = "consumption_kw" -> parse_czech_decimal(CellOf(row, "c1"))
                    [] x = "production_kw" -> parse_czech_decimal(CellOf(row, "c2"))
                    [] x = "reactive_kw" -> parse_czech_decimal(CellOf(row, "c3"))
                    [] OTHER -> Null ]]

\* C32: parse_records returns, in input order, one reading for each row
\* whose timestamp cell parses and none for any other row; a missing or
\* unparsable metric cell makes only that field None; get_latest_reading
\* is the last element of the list, None when the list is empty.
C32_ParseRecords ==
    (output # Null /\ output.k = "records") =>
        LET kept == SelectSeq(input.values, TimestampParses)
        IN /\ output.records # Raise
           /\ output.records.items = [ i \in 1..Len(kept) |-> ReadingOfRow(kept[i]) ]
           /\ output.latest = IF kept = << >> THEN Null
                               ELSE ReadingOfRow(kept[Len(kept)])

\* C33: when the polling task is cancelled while a report fetch is in
\* flight, the cancellation takes effect only after that fetch ran to its
\* end: the task does not end suspended inside the fetch.
C33_CancelWaitsForFetch ==
    (output # Null /\ output.k = "task" /\ output.task = "cancelled"
       /\ output.cancel_at.at = "fetch")
    => ~(output.at = "fetch" /\ output.asm = output.cancel_at.asm
           /\ output.step <= FetchAwaits)

\* C40: after SIGTERM or SIGINT arrived while the polling loop runs, the
\* loop eventually stops and mqtt_publisher.stop() is eventually called.
C40_SignalStopsLoop ==
    (output # Null /\ output.k = "task" /\ output.signalled)
    ~> (output.task # "running" /\ output.stopped)

\* the server's answer that makes the call fail signals an authorization
\* failure: HTTP 401 or a redirect (to the login page)
AuthFailure(r) == r.k = "response" /\ r.status \in { 401, 302 }

\* the tariff service is in maintenance: HTTP 400 or 503, or an HTML body
InMaintenance(r) == r.k = "response" /\ (r.status \in { 400, 503 } \/ (r.status = 200 /\ r.html))

\* the answer that decides a fetch_hdo call: the token answer unless it
\* is a good one, else the signals answer
Deciding(server) ==
    IF server.token.k = "response" /\ server.token.status = 200 /\ ~server.token.html
    THEN server.signals ELSE server.token

\* C34: a report fetch fails with SessionExpiredError whenever the server
\* signals an authorization failure and with another failure in every other
\* failure case; a tariff-feed fetch makes the same distinction and reports
\* HTTP 400/503 or an HTML body as DipMaintenanceError.
C34_FailureKinds ==
    (output # Null /\ output.k = "fetched") =>
        /\ (input.k = "pnd" /\ input.launch /\ AuthFailure(input.response))
             => output.res = Raised("SessionExpiredError")
        /\ (input.k = "pnd" /\ output.res.k = "raise"
               /\ ~(input.launch /\ AuthFailure(input.response)))
             => output.res # Raised("SessionExpiredError")
        /\ (input.k = "dip" /\ AuthFailure(Deciding(input)))
             => output.res = Raised("SessionExpiredError")
        /\ (input.k = "dip" /\ InMaintenance(Deciding(input)))
             => output.res = Raised("DipMaintenanceError")

\* the token answer is a good one: status 200, no HTML, a JSON object with a token
GoodToken(t) ==
    t.k = "response" /\ t.status = 200 /\ ~t.html /\ t.body.k = "json" /\ t.body.token # Null

\* C36: fetch_hdo sends the token request first; it sends the signals
\* request only after a token answer with status 200, no HTML and a token,
\* with exactly that token in x-request-token; after any failure of the
\* token step it sends no signals request.
C36_TokenThenSignals ==
    (output # Null /\ output.k = "fetched" /\ input.k = "dip") =>
        /\ output.requests[1] = DipRequest("token", Null)
        /\ IF GoodToken(input.token)
           THEN output.requests = << DipRequest("token", Null),
                                     DipRequest("signals", input.token.body.token) >>
           ELSE output.requests = << DipRequest("token", Null) >>

C36_Witness ==
    /\ output # Null /\ output.k = "fetched" /\ input.k = "dip"
    /\ GoodToken(input.token)
    /\ input.token.body.token = JStr("t2")
    /\ Len(output.requests) = 2
    /\ output.res.k = "data"

IsFetchOutcome(o) == o \in { "ok", "expired", "error" }

CountIn(log, P(_)) == Cardinality({ i \in 1..Len(log) : P(log[i]) })

IsEnsure(o) == o \in { "ensure_ok", "ensure_raise" }

\* the part of the log that belongs to the current budget of attempts
BudgetOf(log) ==
    IF \E i \in 1..Len(log) : log[i] = "ensure_ok"
    THEN LET i == CHOOSE i \in 1..Len(log) : log[i] = "ensure_ok"
         IN  SubSeq(log, i + 1, Len(log))
    ELSE log

IsError(o) == o = "error"

\* the delays slept within one budget: base, then twice the one before
Doubling(base, n) == [ i \in 1..n |-> IF i = 1 THEN base ELSE IF i = 2 THEN 2 * base ELSE 4 * base ]

IsSleep(o) == o = "sleep"

\* what holds at every point of a call of _fetch_with_retry
RetryBounded ==
    (output # Null /\ output.k = "retry") =>
        LET log == output.log
            budget == BudgetOf(log)
            first == IF budget = log THEN log
                     ELSE SubSeq(log, 1, Len(log) - Len(budget) - 1)
            last == log[Len(log)]
        IN  /\ CountIn(log, IsFetchOutcome) <= 2 * max_retries
            /\ CountIn(log, IsEnsure) <= 1
            \* a sleep follows each failed attempt but the last permitted
            /\ CountIn(budget, IsSleep) =
                 (IF CountIn(budget, IsError) = max_retries THEN max_retries - 1
                  ELSE IF output.at = "sleep" THEN CountIn(budget, IsError) - 1
                  ELSE CountIn(budget, IsError))
            /\ CountIn(budget, IsSleep) < max_retries
            /\ output.sleeps =
                 (IF budget = log THEN << >>
                  ELSE Doubling(input.n, CountIn(first, IsSleep)))
                 \o Doubling(input.n, CountIn(budget, IsSleep))
            /\ (output.res = FetchNone) <=>
                 (log # << >> /\
                    \/ CountIn(budget, IsError) = max_retries
                    \/ last = "ensure_raise"
                    \/ (last = "expired" /\ budget # log))
            /\ (output.res # Null /\ output.res # FetchNone) <=> (log # << >> /\ last = "ok")

\* C35: every call of _fetch_with_retry terminates, with at most
\* 2 x max_retries fetch attempts and at most one ensure_session call; it
\* sleeps retry_base_delay_seconds x 2^(k-1) after the k-th failed attempt
\* of a budget except after the last permitted one, and returns None once
\* the attempts are exhausted, the re-authentication failed or the session
\* is still expired after the one re-authentication.
C35_RetryTerminates ==
    /\ []RetryBounded
    /\ <>(output # Null /\ output.k = "retry" /\ output.res # Null)

C35_Witness ==
    /\ output # Null /\ output.k = "retry"
    /\ output.res = FetchNone
    /\ output.log = << "error", "sleep", "expired", "ensure_ok",
                        "error", "sleep", "error", "sleep", "error" >>
    /\ output.sleeps = << input.n, input.n, 2 * input.n >>

\* C37: every state passed to publish_state has, for each meter, only keys
\* among the 13 sensor keys, none of them "timestamp" or "electrometer_id",
\* and every value is a number.
C37_PublishedStateIsNumeric ==
    /\ Cardinality(SensorKeySet) = 13
    /\ \A i \in 1..Len(pubLog) :
         \A m \in DOMAIN pubLog[i].state :
           /\ DOMAIN pubLog[i].state[m] \subseteq SensorKeySet
           /\ DOMAIN pubLog[i].state[m] \cap { "timestamp", "electrometer_id" } = {}
           /\ \A sk \in DOMAIN pubLog[i].state[m] : pubLog[i].state[m][sk] \in Int

C37_Witness ==
    /\ Len(pubLog) = 1
    /\ \E m \in DOMAIN pubLog[1].state : DOMAIN pubLog[1].state[m] = SensorKeySet

\* C38: the values merged in one cycle for a configured meter all lie under
\* one key of the state passed to publish_state, and every key of that
\* state is a configured meter id, whether or not the reports embed a meter
\* id in their column names and whether or not it is the configured one.
C38_MergedUnderConfiguredId ==
    \A i \in 1..Len(pubLog) :
      DOMAIN pubLog[i].state \subseteq
        { electrometers[m].electrometer_id : m \in 1..Len(electrometers) }

\* C39: every browser launched by a login attempt is either the one held
\* by the session store or closed: when a login starts, every browser
\* launched before is closed, and when no login is running an open browser
\* is the stored one, also after a login that failed after the launch.
C39_NoBrowserLeft ==
    (output # Null /\ output.k = "browsers") =>
        \A i \in 1..Len(output.browsers) :
          output.browsers[i] = "open" =>
            \/ i = output.stored
            \/ (output.at = "page" /\ i = Len(output.browsers))

=============================================================================
